---- MODULE Spec2Model ----
(***************************************************************************)
(* Model of the raindrop-summarizer pipeline: VideoSummarizer.run and its  *)
(* batch dispatcher (main.ts as listed in IMPROVEMENTS.md), the SQLite     *)
(* store (db/database.ts), RaindropAPI.fetchBookmarks (api/raindrop.ts),   *)
(* VideoDetector (video/detector.ts) and TagUpdater (utils/tag-updater.ts).*)
(*                                                                         *)
(* A URL is a sequence of tokens.  The delimiters the regular expressions  *)
(* of the source look at ("https://", "www.", "m.", "/", "?", "&", "#")    *)
(* are tokens of their own; every other token is a run of characters       *)
(* without a delimiter.  An ID token is 11 characters of [A-Za-z0-9_-].    *)
(***************************************************************************)
EXTENDS Integers, Sequences, FiniteSets, TLC

\* ---------------------------------------------------------------- bounds
NumBookmarks == 5
MaxRuns == 2
MaxVideosOpt == 3
MaxConcurrency == 3

\* ------------------------------------------------------- generic helpers
Range(s) == {s[k] : k \in 1..Len(s)}

Min(a, b) == IF a < b THEN a ELSE b

At(url, k) == IF k \in 1..Len(url) THEN url[k] ELSE ""

Prefix(s, n) == SubSeq(s, 1, Min(n, Len(s)))

\* Array.prototype.filter: the elements at the indices in keep, in order
RECURSIVE FilterFrom(_, _, _)
FilterFrom(s, k, keep) ==
    IF k > Len(s) THEN <<>>
    ELSE IF k \in keep THEN <<s[k]>> \o FilterFrom(s, k + 1, keep)
    ELSE FilterFrom(s, k + 1, keep)

Filter(s, keep) == FilterFrom(s, 1, keep)

\* ------------------------------------------------------------ URL tokens
Protocols == {"http://", "https://"}

IdTokens == {"XYZxyzXYZ01", "xyzxyzxyz01", "ABCabcABC02", "abcabcabc02"}

NoId == "null"

\* String.prototype.toLowerCase on one token
ToLowerCase(tok) ==
    CASE tok = "XYZxyzXYZ01" -> "xyzxyzxyz01"
      [] tok = "ABCabcABC02" -> "abcabcabc02"
      [] OTHER -> tok

\* Database.extractVideoId: the unanchored pattern
\*   (youtube.com|youtu.be) "/" (watch?v= | embed/ | v/ | "") ([\w-]{11})
\* tried at token position p; the optional protocol, www. and m. groups in
\* front of it never decide the match.
DbIdAt(url, p) ==
    IF ~(At(url, p) \in {"youtube.com", "youtu.be"} /\ At(url, p + 1) = "/")
    THEN NoId
    ELSE IF At(url, p + 2) = "watch" /\ At(url, p + 3) = "?" /\ At(url, p + 4) = "v="
            /\ At(url, p + 5) \in IdTokens
    THEN At(url, p + 5)
    ELSE IF At(url, p + 2) \in {"embed", "v"} /\ At(url, p + 3) = "/"
            /\ At(url, p + 4) \in IdTokens
    THEN At(url, p + 4)
    ELSE IF At(url, p + 2) \in IdTokens
    THEN At(url, p + 2)
    ELSE NoId

DbExtractVideoId(url) ==
    LET hits == {p \in 1..Len(url) : DbIdAt(url, p) # NoId}
    IN IF hits = {} THEN NoId
       ELSE DbIdAt(url, CHOOSE p \in hits : \A q \in hits : p <= q)

\* VideoDetector.normalizeHostname + isVideoUrl: new URL(url) needs a
\* protocol; the hostname (www. stripped) must contain a supported hostname.
HostTokens(url) ==
    LET rest == IF At(url, 1) \in Protocols THEN Tail(url) ELSE url
        stop == {k \in 1..Len(rest) : rest[k] \in {"/", "?", "#"}}
        last == IF stop = {} THEN Len(rest)
                ELSE (CHOOSE k \in stop : \A j \in stop : k <= j) - 1
    IN SubSeq(rest, 1, last)

IsVideoUrl(url) ==
    /\ At(url, 1) \in Protocols
    /\ \E k \in 1..Len(HostTokens(url)) :
           HostTokens(url)[k] \in {"youtube.com", "youtu.be"}

FilterVideoBookmarks(bookmarks) ==
    Filter(bookmarks, {k \in 1..Len(bookmarks) : IsVideoUrl(bookmarks[k].link)})

\* -------------------------------------------------- the bookmark source
LinkPool ==
    << <<"https://", "www.", "youtube.com", "/", "watch", "?", "v=", "XYZxyzXYZ01">>,
       <<"https://", "www.", "youtube.com", "/", "playlist", "?", "list=PL1">>,
       <<"https://", "m.", "youtube.com", "/", "watch", "?", "v=", "XYZxyzXYZ01",
         "&", "feature=share">>,
       <<"https://", "example.com", "/", "article">>,
       <<"https://", "youtu.be", "/", "ABCabcABC02">> >>

TagPool == << <<"a", "b">>, <<>>, <<"b", "a", "a">> >>

\* Bookmark i of the collection on the source service (RaindropItem)
Bookmark(i) ==
    [_id  |-> i,
     link |-> LinkPool[((i - 1) % Len(LinkPool)) + 1],
     tags |-> TagPool[((i - 1) % Len(TagPool)) + 1]]

Collection(n) == [i \in 1..n |-> Bookmark(i)]

\* ------------------------------------------------------------ TagUpdater
\* the tokens of s from index k up to (not including) the first token in stops
RECURSIVE TakeUntil(_, _, _)
TakeUntil(s, k, stops) ==
    IF k > Len(s) \/ s[k] \in stops THEN <<>>
    ELSE <<s[k]>> \o TakeUntil(s, k + 1, stops)

\* String.prototype.replace(/X.*$/, ""): cut at the first token tok
CutAt(s, tok) == TakeUntil(s, 1, {tok})

\* normalizeUrl inside TagUpdater.findMatchingBookmark, replacement by
\* replacement in the order of the source
NormalizeUrl(url) ==
    LET lower   == [k \in 1..Len(url) |-> ToLowerCase(url[k])]
        noProto == IF At(lower, 1) \in Protocols THEN Tail(lower) ELSE lower
        noWww   == IF At(noProto, 1) = "www." THEN Tail(noProto) ELSE noProto
        noSlash == IF At(noWww, Len(noWww)) = "/"
                   THEN SubSeq(noWww, 1, Len(noWww) - 1) ELSE noWww
        noAmp   == CutAt(noSlash, "&")
    IN CutAt(noAmp, "?")

IdStops == {"&", "?", "#"}

\* the capture group ([^&\n?#]+) starting at token k; <<>> when it is empty
Capture(url, k) == TakeUntil(url, k, IdStops)

\* one pattern of TagUpdater.extractVideoId tried at token position p
TuIdAt(url, p, pat) ==
    CASE pat = 1 ->
            IF At(url, p) = "youtube.com" /\ At(url, p + 1) = "/"
               /\ At(url, p + 2) = "watch" /\ At(url, p + 3) = "?"
               /\ At(url, p + 4) = "v="
            THEN Capture(url, p + 5) ELSE <<>>
      [] pat = 2 ->
            IF At(url, p) = "youtu.be" /\ At(url, p + 1) = "/"
            THEN Capture(url, p + 2) ELSE <<>>
      [] pat = 3 ->
            IF At(url, p) = "youtube.com" /\ At(url, p + 1) = "/"
               /\ At(url, p + 2) = "embed" /\ At(url, p + 3) = "/"
            THEN Capture(url, p + 4) ELSE <<>>
      [] OTHER ->
            IF At(url, p) = "vimeo.com" /\ At(url, p + 1) = "/"
               /\ At(url, p + 2) \in {"123456"}
            THEN <<At(url, p + 2)>> ELSE <<>>

TuMatch(url, pat) ==
    LET hits == {p \in 1..Len(url) : TuIdAt(url, p, pat) # <<>>}
    IN IF hits = {} THEN <<>>
       ELSE TuIdAt(url, CHOOSE p \in hits : \A q \in hits : p <= q, pat)

\* TagUpdater.extractVideoId: the first pattern that matches; <<>> is null
TuExtractVideoId(url) ==
    IF TuMatch(url, 1) # <<>> THEN TuMatch(url, 1)
    ELSE IF TuMatch(url, 2) # <<>> THEN TuMatch(url, 2)
    ELSE IF TuMatch(url, 3) # <<>> THEN TuMatch(url, 3)
    ELSE TuMatch(url, 4)

\* one iteration of the loop of findMatchingBookmark
BookmarkMatches(videoUrl, link) ==
    \/ NormalizeUrl(link) = NormalizeUrl(videoUrl)
    \/ /\ TuExtractVideoId(videoUrl) # <<>>
       /\ TuExtractVideoId(link) # <<>>
       /\ TuExtractVideoId(videoUrl) = TuExtractVideoId(link)

\* TagUpdater.findMatchingBookmark: index of the first matching bookmark, 0
\* for null
FindMatchingBookmark(videoUrl, bookmarks) ==
    LET hits == {k \in 1..Len(bookmarks) : BookmarkMatches(videoUrl, bookmarks[k].link)}
    IN IF hits = {} THEN 0 ELSE CHOOSE k \in hits : \A j \in hits : k <= j

\* ----------------------------------------------------------------- store
NoTags == <<"null">>

\* a plain INSERT that keeps the conflicting row
MarkVideoProcessedInsert(rows, rec) ==
    rows \o <<[video_id |-> rec.video_id, url |-> rec.url,
               raindrop_bookmark_id |-> rec.raindrop_bookmark_id,
               tags |-> rec.tags]>>

\* SQL: INSERT OR REPLACE INTO processed_videos ... with video_id UNIQUE:
\* the conflicting row is deleted and the new row inserted.  The table is the
\* sequence of its rows in insertion order (the order of the AUTOINCREMENT
\* id and of processed_at).
MarkVideoProcessed(rows, rec) ==
    Filter(rows, {k \in 1..Len(rows) : rows[k].video_id # rec.video_id})
        \o <<[video_id |-> rec.video_id, url |-> rec.url,
              raindrop_bookmark_id |-> rec.raindrop_bookmark_id,
              tags |-> rec.tags]>>

\* SELECT COUNT(*) ... WHERE raindrop_bookmark_id = ?
IsBookmarkProcessed(rows, bookmarkId) ==
    \E k \in 1..Len(rows) : rows[k].raindrop_bookmark_id = bookmarkId

\* a tags column that does not parse as JSON
UnparsedTags == <<"{not json">>

\* the row mapping of getProcessedVideos: a tags column that is null, does
\* not parse, or holds an empty list is returned as undefined
RowTags(tags) == IF tags = UnparsedTags \/ tags = <<>> THEN NoTags ELSE tags

\* SELECT * FROM processed_videos ORDER BY processed_at DESC
GetProcessedVideos(rows) ==
    [k \in 1..Len(rows) |->
        [rows[Len(rows) + 1 - k] EXCEPT !.tags = RowTags(@)]]

\* ------------------------------------------------------------ dispatcher
\* [...new Set([...existingTags, ...generatedTags])]: first occurrences, in
\* order
RECURSIVE Dedupe(_, _)
Dedupe(s, seen) ==
    IF s = <<>> THEN <<>>
    ELSE IF Head(s) \in seen THEN Dedupe(Tail(s), seen)
    ELSE <<Head(s)>> \o Dedupe(Tail(s), seen \cup {Head(s)})

\* a merge that concatenates without removing duplicates
MergeTagsConcat(existingTags, generatedTags) == existingTags \o generatedTags

MergeTags(existingTags, generatedTags) ==
    Dedupe(existingTags \o generatedTags, {})

RECURSIVE ChunkFrom(_, _, _)
ChunkFrom(array, i, chunkSize) ==
    IF i > Len(array) THEN <<>>
    ELSE <<SubSeq(array, i, Min(i + chunkSize - 1, Len(array)))>>
             \o ChunkFrom(array, i + chunkSize, chunkSize)

\* chunks one element longer than asked for
ChunkArrayOffByOne(array, chunkSize) == ChunkFrom(array, 1, chunkSize + 1)

\* VideoSummarizer.chunkArray
ChunkArray(array, chunkSize) == ChunkFrom(array, 1, chunkSize)

\* --------------------------------------------------------- RaindropAPI
DEFAULT_PER_PAGE == 50

NoLimit == 0

\* page number page (from 0) of the collection, as the source service
\* answers RaindropAPI.fetchBookmarksPage
SourcePage(collection, page) ==
    SubSeq(collection, page * DEFAULT_PER_PAGE + 1,
           Min((page + 1) * DEFAULT_PER_PAGE, Len(collection)))

\* the while loop of RaindropAPI.fetchBookmarks when every page request
\* succeeds; maxItems = NoLimit stands for undefined (and for 0: !maxItems)
RECURSIVE FetchLoop(_, _, _, _, _)
FetchLoop(collection, maxItems, allBookmarks, page, hasMore) ==
    IF ~(hasMore /\ (maxItems = NoLimit \/ Len(allBookmarks) < maxItems))
    THEN allBookmarks
    ELSE LET bookmarks == SourcePage(collection, page)
         IN IF Len(bookmarks) = 0 THEN allBookmarks
            ELSE FetchLoop(collection, maxItems, allBookmarks \o bookmarks,
                           page + 1, Len(bookmarks) = DEFAULT_PER_PAGE)

FetchBookmarksAll(collection, maxItems) ==
    LET allBookmarks == FetchLoop(collection, maxItems, <<>>, 0, TRUE)
    IN IF maxItems # NoLimit /\ Len(allBookmarks) > maxItems
       THEN SubSeq(allBookmarks, 1, maxItems) ELSE allBookmarks

\* ------------------------------------------------------- state of a run
VARIABLES
    runNo,        \* number of the current process run
    colLen,       \* number of bookmarks in the collection on the service
    pc,           \* position of run()
    opts,         \* CLIOptions / Config of the run
    db,           \* Database.db handle: "none", "open", "closed"
    store,        \* rows of processed_videos, in insertion order
    lastWrite,    \* video_id -> bookmark id of the last markVideoProcessed
    stats,        \* ProcessingStats
    videos,       \* videosToProcess
    batchNo,      \* index of the batch in the for loop
    processed,    \* local counter of processVideosConcurrently
    item,         \* per dispatched item: position of processSingleVideo
    outcome,      \* per dispatched item: how summarizeVideo settled
    sentTags,     \* per dispatched item: payload of updateBookmarkTags
    exitCode,     \* "running", "ok" (run returned), "error" (Deno.exit(1))
    abortCause,   \* the call whose error reached the catch of run()
    prev,         \* summary of the previous run
    syncQueue,    \* update-tags mode: records still to sync
    syncBookmarks,\* update-tags mode: bookmarks fetched for matching
    syncStats,    \* TagUpdateStats
    reported      \* what the run printed last: "none", "stats", "sync", "list"

runVars == <<runNo, colLen, pc, opts, db, store, lastWrite,
             stats, videos, batchNo, processed, item, outcome, sentTags,
             exitCode, abortCause, prev, syncQueue, syncBookmarks, syncStats,
             reported>>

\* state of the three component specifications below
VARIABLES
    tgPhase, tgOrig, tgGen, tgSent,          \* the inline tag merge
    mtPhase, mtStored, mtLink, mtResult,     \* the batch tag-sync matcher
    fPc, fMaxItems, fAll, fPage, fHasMore,   \* RaindropAPI.fetchBookmarks
    fPageLens, fDelays, fLast, fResult,
    fMode, fDetector, fMaxVideos,            \* ...WithVideoFiltering
    fVideoLens, fVideoCount,
    fStatus, fError                          \* last response, error thrown

tagVars == <<tgPhase, tgOrig, tgGen, tgSent>>

matchVars == <<mtPhase, mtStored, mtLink, mtResult>>

fetchVars == <<fPc, fMaxItems, fAll, fPage, fHasMore, fPageLens, fDelays, fLast,
               fResult, fMode, fDetector, fMaxVideos, fVideoLens, fVideoCount,
               fStatus, fError>>

VARIABLES cfPc, cfCliArg, cfEnv, cfOptions, cfConcurrency

configVars == <<cfPc, cfCliArg, cfEnv, cfOptions, cfConcurrency>>

ConfigIdle == cfPc = "idle" /\ cfCliArg = "" /\ cfEnv = "" /\ cfOptions = 0 /\ cfConcurrency = 0

VARIABLES syncCalls, syncResults, syncFetched

syncLogVars == <<syncCalls, syncResults, syncFetched>>

SyncLogIdle == syncCalls = <<>> /\ syncResults = <<>> /\ syncFetched = FALSE

VARIABLES readFailed

dedupVars == <<readFailed>>

DedupIdle == readFailed = {}

VARIABLES peText, peResult

parseErrorVars == <<peText, peResult>>

ParseErrorIdle == peText = 0 /\ peResult = ""

VARIABLES fnUrl, fnTitle, fnDetector, fnGateway

filenameVars == <<fnUrl, fnTitle, fnDetector, fnGateway>>

FilenameIdle ==
    /\ fnUrl = <<>> /\ fnTitle = <<>>
    /\ fnDetector = [tier |-> "none", parts |-> <<>>]
    /\ fnGateway = [tier |-> "none", parts |-> <<>>]

VARIABLES itPc, itBookmark, itLog, itSuccessful, itFailed, itGen, itOutputFile

itemVars == <<itPc, itBookmark, itLog, itSuccessful, itFailed, itGen, itOutputFile>>

ItemIdle == itPc = "idle" /\ itBookmark = 0 /\ itLog = <<>> /\ itSuccessful = 0 /\ itFailed = 0 /\ itGen = <<>> /\ itOutputFile = FALSE

VARIABLES envPc, envPath, envValid, envCache, envDetections, envCall

envVars == <<envPc, envPath, envValid, envCache, envDetections, envCall>>

EnvIdle == envPc = "idle" /\ envPath = "none" /\ envValid = FALSE /\ envCache = "null" /\ envDetections = 0 /\ envCall = <<>>

VARIABLES lkPhase, lkStored, lkLinks, lkResult

lookupVars == <<lkPhase, lkStored, lkLinks, lkResult>>

LookupIdle == lkPhase = "idle" /\ lkStored = <<>> /\ lkLinks = <<>> /\ lkResult = 0

VARIABLES jobs, jobPc, jobResult, jobHistory, jobReply, jobToken

jobVars == <<jobs, jobPc, jobResult, jobHistory, jobReply, jobToken>>

JobIdle == jobs = <<>> /\ jobPc = <<>> /\ jobResult = <<>> /\ jobHistory = <<>> /\ jobReply = [status |-> 0, error |-> "", job |-> 0] /\ jobToken = FALSE

auxVars == <<jobVars, lookupVars, envVars, itemVars, filenameVars, parseErrorVars, dedupVars, syncLogVars, configVars, tagVars, matchVars, fetchVars>>

vars == <<runVars, auxVars>>

\* everything but one group of variables
nonJobVars == <<lookupVars, envVars, itemVars, filenameVars, parseErrorVars, dedupVars, syncLogVars, configVars, tagVars, matchVars, fetchVars>>

nonLookupVars == <<jobVars, envVars, itemVars, filenameVars, parseErrorVars, dedupVars, syncLogVars, configVars, tagVars, matchVars, fetchVars>>

nonEnvVars == <<jobVars, lookupVars, itemVars, filenameVars, parseErrorVars, dedupVars, syncLogVars, configVars, tagVars, matchVars, fetchVars>>

nonItemVars == <<jobVars, lookupVars, envVars, filenameVars, parseErrorVars, dedupVars, syncLogVars, configVars, tagVars, matchVars, fetchVars>>

nonFilenameVars == <<jobVars, lookupVars, envVars, itemVars, parseErrorVars, dedupVars, syncLogVars, configVars, tagVars, matchVars, fetchVars>>

nonParseErrorVars == <<jobVars, lookupVars, envVars, itemVars, filenameVars, dedupVars, syncLogVars, configVars, tagVars, matchVars, fetchVars>>

nonDedupVars == <<jobVars, lookupVars, envVars, itemVars, filenameVars, parseErrorVars, syncLogVars, configVars, tagVars, matchVars, fetchVars>>

nonSyncLogVars == <<jobVars, lookupVars, envVars, itemVars, filenameVars, parseErrorVars, dedupVars, configVars, tagVars, matchVars, fetchVars>>

nonConfigVars == <<jobVars, lookupVars, envVars, itemVars, filenameVars, parseErrorVars, dedupVars, syncLogVars, tagVars, matchVars, fetchVars>>

nonTagVars == <<jobVars, lookupVars, envVars, itemVars, filenameVars, parseErrorVars, dedupVars, syncLogVars, configVars, matchVars, fetchVars>>

nonMatchVars == <<jobVars, lookupVars, envVars, itemVars, filenameVars, parseErrorVars, dedupVars, syncLogVars, configVars, tagVars, fetchVars>>

nonFetchVars == <<jobVars, lookupVars, envVars, itemVars, filenameVars, parseErrorVars, dedupVars, syncLogVars, configVars, tagVars, matchVars>>

TagIdle == tgPhase = "idle" /\ tgOrig = <<>> /\ tgGen = <<>> /\ tgSent = <<>>

MatchIdle == mtPhase = "idle" /\ mtStored = <<>> /\ mtLink = <<>> /\ mtResult = 0

FetchIdle ==
    /\ fPc = "idle" /\ fMaxItems = 0 /\ fAll = <<>> /\ fPage = 0
    /\ fHasMore = TRUE /\ fPageLens = <<>> /\ fDelays = 0 /\ fLast = "none"
    /\ fResult = <<>> /\ fMode = "idle" /\ fDetector = FALSE
    /\ fMaxVideos = 0 /\ fVideoLens = <<>> /\ fVideoCount = 0
    /\ fStatus = 0 /\ fError = "none"

NoOpts == [mode |-> "none", force |-> FALSE, dryRun |-> FALSE,
           maxVideos |-> 0, concurrency |-> 0]

ZeroStats == [totalBookmarks |-> 0, videoBookmarks |-> 0, processed |-> 0,
              successful |-> 0, failed |-> 0, skipped |-> 0]

ZeroSyncStats == [totalVideos |-> 0, successfulUpdates |-> 0,
                  failedUpdates |-> 0, results |-> 0, matched |-> 0]

NoPrev == [plain |-> FALSE, successful |-> 0]

GenTagChoices == {<<>>, <<"b", "c">>}

\* the bookmarks the source service holds now
Source == Collection(colLen)

RunIdle ==
    /\ runNo = 0 /\ colLen = 0 /\ pc = "idle" /\ opts = NoOpts /\ db = "none"
    /\ store = <<>> /\ lastWrite = [v \in IdTokens |-> 0] /\ stats = ZeroStats
    /\ videos = <<>> /\ batchNo = 0 /\ processed = 0 /\ item = <<>>
    /\ outcome = <<>> /\ sentTags = <<>> /\ exitCode = "running"
    /\ abortCause = "none" /\ prev = NoPrev /\ syncQueue = <<>>
    /\ syncBookmarks = <<>> /\ syncStats = ZeroSyncStats /\ reported = "none"

RunInit ==
    /\ runNo = 1
    /\ colLen \in 0..NumBookmarks
    /\ pc = "start"
    /\ opts = NoOpts
    /\ db = "none"
    /\ store = <<>>
    /\ lastWrite = [v \in IdTokens |-> 0]
    /\ stats = ZeroStats
    /\ videos = <<>>
    /\ batchNo = 0
    /\ processed = 0
    /\ item = <<>>
    /\ outcome = <<>>
    /\ sentTags = <<>>
    /\ exitCode = "running"
    /\ abortCause = "none"
    /\ prev = NoPrev
    /\ syncQueue = <<>>
    /\ syncBookmarks = <<>>
    /\ syncStats = ZeroSyncStats
    /\ reported = "none"

Init == RunInit /\ JobIdle /\ LookupIdle /\ EnvIdle /\ ItemIdle /\ FilenameIdle /\ ParseErrorIdle /\ DedupIdle /\ SyncLogIdle /\ ConfigIdle /\ TagIdle /\ MatchIdle /\ FetchIdle

\* ------------------------------------------------------------- run()
Modes == {"process", "updateTags", "listProcessed", "playlist"}

\* cli.parseArguments + loadConfiguration: the validated options
StartRun ==
    /\ pc = "start"
    /\ \E mode \in Modes, force \in BOOLEAN, dryRun \in BOOLEAN,
          maxVideos \in 1..MaxVideosOpt, concurrency \in 1..MaxConcurrency :
          /\ mode \notin {"process", "playlist"} =>
                 ~force /\ ~dryRun /\ maxVideos = 1 /\ concurrency = 1
          /\ mode = "playlist" => ~force
          /\ opts' = [mode |-> mode, force |-> force, dryRun |-> dryRun,
                      maxVideos |-> maxVideos, concurrency |-> concurrency]
    /\ pc' = "initDb"
    /\ UNCHANGED <<runNo, colLen, db, store, lastWrite,
                   stats, videos, batchNo, processed, item, outcome, sentTags,
                   exitCode, abortCause, prev, syncQueue, syncBookmarks,
                   syncStats, reported>>
    /\ UNCHANGED auxVars

\* Database.initDatabase: it can fail before the connection is opened
\* (import, ensureDataDirectory, open) or after it (createTables)
InitDatabase ==
    /\ pc = "initDb"
    /\ \E r \in {"ok", "failOpen", "failTables"} :
          /\ db' = IF r = "failOpen" THEN db ELSE "open"
          /\ pc' = IF r = "ok" THEN "special" ELSE "caught"
          /\ abortCause' = IF r = "ok" THEN abortCause ELSE "initDatabase"
    /\ UNCHANGED <<runNo, colLen, opts, store, lastWrite,
                   stats, videos, batchNo, processed, item, outcome, sentTags,
                   exitCode, prev, syncQueue, syncBookmarks, syncStats, reported>>
    /\ UNCHANGED auxVars

\* listProcessedVideos: a DatabaseError of getProcessedVideos is rethrown
ListProcessedVideos ==
    /\ pc = "special"
    /\ opts.mode = "listProcessed"
    /\ \E readOk \in BOOLEAN :
          /\ pc' = IF readOk THEN "finally" ELSE "caught"
          /\ abortCause' = IF readOk THEN abortCause ELSE "listProcessed"
          /\ reported' = IF readOk THEN "list" ELSE reported
    /\ UNCHANGED <<runNo, colLen, opts, db, store, lastWrite,
                   stats, videos, batchNo, processed, item, outcome, sentTags,
                   exitCode, prev, syncQueue, syncBookmarks, syncStats>>
    /\ UNCHANGED auxVars

\* testConnections
TestConnections ==
    /\ pc = "special"
    /\ opts.mode = "process"
    /\ \E ok \in BOOLEAN :
          /\ pc' = IF ok THEN "mkdir" ELSE "caught"
          /\ abortCause' = IF ok THEN abortCause ELSE "testConnections"
    /\ UNCHANGED <<runNo, colLen, opts, db, store, lastWrite,
                   stats, videos, batchNo, processed, item, outcome, sentTags,
                   exitCode, prev, syncQueue, syncBookmarks, syncStats, reported>>
    /\ UNCHANGED auxVars

\* ensureOutputDirectory
EnsureOutputDirectory ==
    /\ pc = "mkdir"
    /\ \E ok \in BOOLEAN :
          /\ pc' = IF ok THEN "fetch" ELSE "caught"
          /\ abortCause' = IF ok THEN abortCause ELSE "ensureOutputDirectory"
    /\ UNCHANGED <<runNo, colLen, opts, db, store, lastWrite,
                   stats, videos, batchNo, processed, item, outcome, sentTags,
                   exitCode, prev, syncQueue, syncBookmarks, syncStats, reported>>
    /\ UNCHANGED auxVars

\* the dedup loop of processVideos: the bookmarks without a record
\* a failed read counts as "processed"
ReadFailClosed(found, readOk) == ~readOk \/ found

\* the result of isBookmarkProcessed: the catch block returns false
ReadResult(found, readOk) == readOk /\ found

\* the loop over videoBookmarks; the reads of the bookmarks at the indices
\* in readFails throw inside isBookmarkProcessed
Unprocessed(videoBookmarks, rows, readFails) ==
    Filter(videoBookmarks,
           {k \in 1..Len(videoBookmarks) :
               ~ReadResult(IsBookmarkProcessed(rows, videoBookmarks[k]._id),
                           k \notin readFails)})

\* the indices of the bookmarks that have a record: a failed read of any
\* other bookmark returns what the successful read returns
Recorded(videoBookmarks, rows) ==
    {k \in 1..Len(videoBookmarks) :
        IsBookmarkProcessed(rows, videoBookmarks[k]._id)}

\* the budget is not applied
NoTruncate(unprocessed, maxVideos) == unprocessed

\* videosToProcess.slice(0, config.maxVideos)
Truncate(unprocessed, maxVideos) == Prefix(unprocessed, maxVideos)

\* the dry-run check is skipped
DryRunIgnored(options) == FALSE

\* if (options.dryRun) { ... return ...; } before processVideosConcurrently
DryRunReturns(options) == options.dryRun

\* processVideos up to the call of processVideosConcurrently
ProcessVideosFetch ==
    /\ pc = "fetch"
    /\ \E fetchOk \in BOOLEAN,
          readFails \in SUBSET Recorded(FilterVideoBookmarks(
                           FetchBookmarksAll(Source, opts.maxVideos * 3)), store) :
        IF ~fetchOk
        THEN /\ pc' = "caught"
             /\ abortCause' = "fetchBookmarks"
             /\ readFailed' = {}
             /\ UNCHANGED <<stats, videos, batchNo, processed, item, outcome,
                            sentTags>>
        ELSE LET bookmarks == FetchBookmarksAll(Source, opts.maxVideos * 3)
                 videoBookmarks == FilterVideoBookmarks(bookmarks)
                 unprocessed == IF opts.force THEN videoBookmarks
                                ELSE Unprocessed(videoBookmarks, store, readFails)
                 skipped == Len(videoBookmarks) - Len(unprocessed)
                 videosToProcess == Truncate(unprocessed, opts.maxVideos)
             IN /\ abortCause' = abortCause
                /\ readFailed' = IF opts.force \/ Len(videoBookmarks) = 0 THEN {}
                                  ELSE {videoBookmarks[k]._id : k \in readFails}
                /\ IF Len(bookmarks) = 0
                   THEN /\ stats' = ZeroStats
                        /\ pc' = "report"
                        /\ UNCHANGED <<videos, batchNo, processed, item,
                                       outcome, sentTags>>
                   ELSE IF Len(videoBookmarks) = 0
                   THEN /\ stats' = [ZeroStats EXCEPT
                                        !.totalBookmarks = Len(bookmarks)]
                        /\ pc' = "report"
                        /\ UNCHANGED <<videos, batchNo, processed, item,
                                       outcome, sentTags>>
                   ELSE /\ stats' = [ZeroStats EXCEPT
                                        !.totalBookmarks = Len(bookmarks),
                                        !.videoBookmarks = Len(videoBookmarks),
                                        !.skipped = skipped,
                                        !.processed = Len(videosToProcess)]
                        /\ IF Len(videosToProcess) = 0 \/ DryRunReturns(opts)
                           THEN /\ pc' = "report"
                                /\ UNCHANGED <<videos, batchNo, processed, item,
                                               outcome, sentTags>>
                           ELSE /\ pc' = "dispatch"
                                /\ videos' = videosToProcess
                                /\ batchNo' = 1
                                /\ processed' = 0
                                /\ item' = [k \in 1..Len(videosToProcess) |-> "queued"]
                                /\ outcome' = [k \in 1..Len(videosToProcess) |-> "none"]
                                /\ sentTags' = [k \in 1..Len(videosToProcess) |-> <<>>]
    /\ UNCHANGED <<runNo, colLen, opts, db, store, lastWrite,
                   exitCode, prev, syncQueue, syncBookmarks, syncStats, reported>>
    /\ UNCHANGED nonDedupVars

\* ------------------------------------------------ playlist operations
MaxPlaylist == 2

\* the video IDs of the playlist on YouTube, in playlist order
PlaylistPool == <<"XYZxyzXYZ01", "ABCabcABC02", "xyzxyzxyz01", "abcabcabc02">>

\* the RaindropItem built for playlist video k; its _id, the string
\* playlist_<videoId>, is an id no bookmark of the collection has
PlaylistBookmark(k) ==
    [_id  |-> 0 - k,
     link |-> <<"https://", "youtube.com", "/", "watch", "?", "v=", PlaylistPool[k]>>,
     tags |-> <<"playlist:title", "youtube">>]

\* playlist.videos.slice(0, config.maxVideos).map(...)
PlaylistBookmarks(n, maxVideos) ==
    [k \in 1..Min(n, maxVideos) |-> PlaylistBookmark(k)]

\* handlePlaylistOperations + processPlaylistVideos up to the call of
\* processVideosConcurrently: without an API key it returns; an error of
\* getCompletePlaylist or ensureOutputDirectory is logged and rethrown
HandlePlaylistOperations ==
    /\ pc = "special"
    /\ opts.mode = "playlist"
    /\ \E r \in {"noKey", "fetchFails", "mkdirFails", "ok"}, n \in 0..MaxPlaylist :
          LET videoBookmarks == PlaylistBookmarks(n, opts.maxVideos)
              returns == r = "noKey" \/ (r # "fetchFails" /\ DryRunReturns(opts))
              throws == ~returns /\ r \in {"fetchFails", "mkdirFails"}
          IN /\ r \in {"noKey", "fetchFails"} => n = 0
             /\ abortCause' = IF ~throws THEN abortCause
                               ELSE IF r = "fetchFails" THEN "getCompletePlaylist"
                               ELSE "ensureOutputDirectory"
             /\ IF returns \/ throws
                THEN /\ pc' = IF returns THEN "finally" ELSE "caught"
                     /\ UNCHANGED <<stats, videos, batchNo, processed, item,
                                    outcome, sentTags>>
                ELSE /\ stats' = [ZeroStats EXCEPT
                                     !.totalBookmarks = n,
                                     !.videoBookmarks = Len(videoBookmarks),
                                     !.processed = Len(videoBookmarks)]
                     /\ videos' = videoBookmarks
                     /\ batchNo' = 1
                     /\ processed' = 0
                     /\ item' = [k \in 1..Len(videoBookmarks) |-> "queued"]
                     /\ outcome' = [k \in 1..Len(videoBookmarks) |-> "none"]
                     /\ sentTags' = [k \in 1..Len(videoBookmarks) |-> <<>>]
                     /\ pc' = IF Len(videoBookmarks) = 0 THEN "report" ELSE "dispatch"
    /\ UNCHANGED <<runNo, colLen, opts, db, store, lastWrite,
                   exitCode, prev, syncQueue, syncBookmarks, syncStats, reported>>
    /\ UNCHANGED auxVars

\* ------------------------------------------- processVideosConcurrently
\* const concurrency = config.concurrency || 3
Concurrency == IF opts.concurrency = 0 THEN 3 ELSE opts.concurrency

Batches == ChunkArray(videos, Concurrency)

\* globalIndex = processed + batchIndex (here from 1) of the current batch
BatchIdx == IF batchNo \in 1..Len(Batches)
            THEN (processed + 1)..(processed + Len(Batches[batchNo]))
            ELSE {}

\* number of items in the first b batches
RECURSIVE SumLen(_, _)
SumLen(chunks, b) == IF b = 0 THEN 0 ELSE Len(chunks[b]) + SumLen(chunks, b - 1)

\* the batch that holds the item with global index i
ChunkOf(i) ==
    CHOOSE b \in 1..Len(Batches) : SumLen(Batches, b - 1) < i /\ i <= SumLen(Batches, b)

\* the bookmark bound to item i by batch.map
BookmarkOf(i) == Batches[ChunkOf(i)][i - SumLen(Batches, ChunkOf(i) - 1)]

\* batch.map(...): every item of the batch enters processSingleVideo and
\* runs to its first await
StartBatch ==
    /\ pc = "dispatch"
    /\ batchNo \in 1..Len(Batches)
    /\ item' = [k \in 1..Len(item) |-> IF k \in BatchIdx THEN "progress" ELSE item[k]]
    /\ pc' = "batch"
    /\ UNCHANGED <<runNo, colLen, opts, db, store, lastWrite,
                   stats, videos, batchNo, processed, outcome, sentTags,
                   exitCode, abortCause, prev, syncQueue, syncBookmarks,
                   syncStats, reported>>
    /\ UNCHANGED auxVars

\* processSingleVideo resumes after logger.progress and calls summarizeVideo
BeginSummarize(i) ==
    /\ pc = "batch"
    /\ item[i] = "progress"
    /\ item' = [item EXCEPT ![i] = "summarizing"]
    /\ UNCHANGED <<runNo, colLen, pc, opts, db, store, 
                   lastWrite, stats, videos, batchNo, processed, outcome,
                   sentTags, exitCode, abortCause, prev, syncQueue,
                   syncBookmarks, syncStats, reported>>
    /\ UNCHANGED auxVars

\* processSingleVideo, the branch result.success: count, persist, and start
\* the tag update when tags were generated
ItemSucceeded(i, generatedTags, writeOk) ==
    LET bookmark == BookmarkOf(i)
        videoId == DbExtractVideoId(bookmark.link)
        rec == [video_id |-> videoId, url |-> bookmark.link,
                raindrop_bookmark_id |-> bookmark._id, tags |-> NoTags]
    IN /\ stats' = [stats EXCEPT !.successful = @ + 1]
       /\ IF videoId # NoId /\ writeOk
          THEN /\ store' = MarkVideoProcessed(store, rec)
               /\ lastWrite' = [lastWrite EXCEPT ![videoId] = bookmark._id]
          ELSE UNCHANGED <<store, lastWrite>>
       /\ outcome' = [outcome EXCEPT
                         ![i] = IF videoId # NoId /\ ~writeOk
                                THEN "okNoWrite" ELSE "ok"]
       /\ IF Len(generatedTags) > 0
          THEN /\ sentTags' = [sentTags EXCEPT
                                  ![i] = MergeTags(bookmark.tags, generatedTags)]
               /\ item' = [item EXCEPT ![i] = "tagging"]
          ELSE /\ sentTags' = sentTags
               /\ item' = [item EXCEPT ![i] = "done"]
       /\ UNCHANGED <<pc, abortCause>>

\* the failure is logged but not counted
FailedNotCounted(st) == st

\* stats.failed++ in the else branch and in the catch block
CountFailed(st) == [st EXCEPT !.failed = @ + 1]

\* an item error that leaves processSingleVideo and rejects the batch
ItemFailedRethrow(i, how) ==
    /\ stats' = stats
    /\ outcome' = [outcome EXCEPT ![i] = how]
    /\ item' = [item EXCEPT ![i] = "done"]
    /\ pc' = "caught"
    /\ abortCause' = "processSingleVideo"
    /\ UNCHANGED <<store, lastWrite, sentTags>>

\* processSingleVideo, the else branch (failure result) and the catch block
\* (summarizeVideo threw): the item is counted as failed and settles
ItemFailed(i, how) ==
    /\ stats' = CountFailed(stats)
    /\ outcome' = [outcome EXCEPT ![i] = how]
    /\ item' = [item EXCEPT ![i] = "done"]
    /\ UNCHANGED <<pc, abortCause, store, lastWrite, sentTags>>

\* summarizeVideo settles
SettleSummarize(i) ==
    /\ pc = "batch"
    /\ item[i] = "summarizing"
    /\ \/ \E generatedTags \in GenTagChoices, writeOk \in BOOLEAN :
             ItemSucceeded(i, generatedTags, writeOk)
       \/ \E how \in {"fail", "throw"} : ItemFailed(i, how)
    /\ UNCHANGED <<runNo, colLen, opts, db, videos, batchNo,
                   processed, exitCode, prev, syncQueue, syncBookmarks,
                   syncStats, reported>>
    /\ UNCHANGED auxVars

\* updateBookmarkTags settles; it never throws, its result is only logged
FinishTagUpdate(i) ==
    /\ pc = "batch"
    /\ item[i] = "tagging"
    /\ item' = [item EXCEPT ![i] = "done"]
    /\ UNCHANGED <<runNo, colLen, pc, opts, db, store, lastWrite,
                   stats, videos, batchNo, processed, outcome, sentTags,
                   exitCode, abortCause, prev, syncQueue, syncBookmarks,
                   syncStats, reported>>
    /\ UNCHANGED auxVars

\* a join that resumes at the first settled promise
BatchSettledAny == \E i \in BatchIdx : item[i] = "done"

\* await Promise.allSettled(batchPromises): every promise of the batch has
\* settled
BatchSettled == \A i \in BatchIdx : item[i] = "done"

JoinBatch ==
    /\ pc = "batch"
    /\ BatchSettled
    /\ processed' = processed + Len(Batches[batchNo])
    /\ batchNo' = batchNo + 1
    /\ pc' = IF batchNo + 1 > Len(Batches) THEN "report"
             ELSE IF processed' < Len(videos) THEN "pause" ELSE "dispatch"
    /\ UNCHANGED <<runNo, colLen, opts, db, store, lastWrite,
                   stats, videos, item, outcome, sentTags, exitCode, abortCause,
                   prev, syncQueue, syncBookmarks, syncStats, reported>>
    /\ UNCHANGED auxVars

\* the 500 ms pause between two batches
BatchPause ==
    /\ pc = "pause"
    /\ pc' = "dispatch"
    /\ UNCHANGED <<runNo, colLen, opts, db, store, lastWrite,
                   stats, videos, batchNo, processed, item, outcome, sentTags,
                   exitCode, abortCause, prev, syncQueue, syncBookmarks,
                   syncStats, reported>>
    /\ UNCHANGED auxVars

\* processVideos returns its stats; showFinalResults prints the counts
ShowFinalResults ==
    /\ pc = "report"
    /\ reported' = "stats"
    /\ pc' = "finally"
    /\ UNCHANGED <<runNo, colLen, opts, db, store, lastWrite,
                   stats, videos, batchNo, processed, item, outcome, sentTags,
                   exitCode, abortCause, prev, syncQueue, syncBookmarks,
                   syncStats>>
    /\ UNCHANGED auxVars

\* ------------------------------------------ TagUpdater, update-tags mode
\* video.tags that JSON.parse rejects
BadTags == UnparsedTags

\* Raindrop's result record: bookmarkId 0 stands for undefined
SyncResult(video, bookmarkId, error, tagsUpdated, newTags) ==
    [videoId |-> video.video_id, bookmarkId |-> bookmarkId, error |-> error,
     tagsUpdated |-> tagsUpdated, newTags |-> newTags]

\* TagUpdater.areTagsEqual: the same length and the same sorted elements;
\* sorted lists are compared as bags
RECURSIVE CountOf(_, _)
CountOf(s, x) ==
    IF s = <<>> THEN 0
    ELSE (IF Head(s) = x THEN 1 ELSE 0) + CountOf(Tail(s), x)

AreTagsEqual(tags1, tags2) ==
    /\ Len(tags1) = Len(tags2)
    /\ \A x \in Range(tags1) \cup Range(tags2) : CountOf(tags1, x) = CountOf(tags2, x)

\* an update that is sent only when the tags differ
UpdateWhenChanged(originalTags, videoTags) == ~AreTagsEqual(originalTags, videoTags)

\* the update call is unconditional ("force update"); the comparison of
\* the tags only feeds a debug message
ShouldUpdate(originalTags, videoTags) == TRUE

\* the branches of TagUpdater.processVideoFromDatabase once
\* findMatchingBookmark has returned index m (0 for null): the result, and
\* the call made; call is <<>> or the one call <<[videoId, bookmarkId, tags]>>
ResultForMatch(video, bookmarks, m, updateSuccess) ==
    IF video.url = <<>> \/ video.tags = NoTags
    THEN [result |-> SyncResult(video, 0, TRUE, FALSE, <<>>), call |-> <<>>]
    ELSE IF m = 0
    THEN [result |-> SyncResult(video, 0, TRUE, FALSE, <<>>), call |-> <<>>]
    ELSE IF video.tags = BadTags
    THEN [result |-> SyncResult(video, bookmarks[m]._id, TRUE, FALSE, <<>>),
          call |-> <<>>]
    ELSE IF ~ShouldUpdate(bookmarks[m].tags, video.tags)
    THEN [result |-> SyncResult(video, bookmarks[m]._id, FALSE, FALSE,
                                video.tags),
          call |-> <<>>]
    ELSE [result |-> SyncResult(video, bookmarks[m]._id, ~updateSuccess,
                                updateSuccess, video.tags),
          call |-> <<[videoId |-> video.video_id,
                      bookmarkId |-> bookmarks[m]._id,
                      tags |-> video.tags]>>]

\* processVideoFromDatabase: the result record and the updateBookmarkTags
\* call it makes (at most one)
ProcessVideoFromDatabase(video, bookmarks, updateSuccess) ==
    ResultForMatch(video, bookmarks, FindMatchingBookmark(video.url, bookmarks),
                   updateSuccess)

\* a count that drops the failed results
CountSuccessOnly(syncSt, result) ==
    [syncSt EXCEPT
        !.results = @ + 1,
        !.successfulUpdates = IF ~result.error /\ result.tagsUpdated
                              THEN @ + 1 ELSE @]

\* the counting of one result in the loop of updateTagsFromDatabase
CountResult(syncSt, result) ==
    [syncSt EXCEPT
        !.results = @ + 1,
        !.failedUpdates = IF result.error THEN @ + 1 ELSE @,
        !.successfulUpdates = IF ~result.error /\ result.tagsUpdated
                              THEN @ + 1 ELSE @,
        !.matched = IF ~result.error /\ result.tagsUpdated THEN @ + 1 ELSE @]

\* updateTagsFromDatabase up to the loop: read the records, fetch the
\* bookmarks.  A failed read or a failed fetch is caught by the method's
\* own catch block, which returns the counts so far.
UpdateTagsBegin ==
    /\ pc = "special"
    /\ opts.mode = "updateTags"
    /\ \E readOk \in BOOLEAN, fetchOk \in BOOLEAN :
          LET processedVideos == IF readOk THEN GetProcessedVideos(store) ELSE <<>>
              go == Len(processedVideos) > 0 /\ fetchOk
          IN /\ syncStats' = [ZeroSyncStats EXCEPT !.totalVideos = Len(processedVideos)]
             /\ syncQueue' = IF go THEN processedVideos ELSE <<>>
             /\ syncBookmarks' = IF go THEN FetchBookmarksAll(Source, NoLimit) ELSE <<>>
             /\ syncFetched' = go
    /\ pc' = "sync"
    /\ UNCHANGED <<runNo, colLen, opts, db, store, lastWrite,
                   stats, videos, batchNo, processed, item, outcome, sentTags,
                   exitCode, abortCause, prev, reported>>
    /\ UNCHANGED <<syncCalls, syncResults>>
    /\ UNCHANGED nonSyncLogVars

\* one iteration of the loop: processVideoFromDatabase and the counting
SyncRecord ==
    /\ pc = "sync"
    /\ syncQueue # <<>>
    /\ \E updateSuccess \in BOOLEAN :
          LET r == ProcessVideoFromDatabase(Head(syncQueue), syncBookmarks,
                                            updateSuccess)
          IN /\ syncResults' = Append(syncResults, r.result)
             /\ syncCalls' = syncCalls \o r.call
             /\ syncStats' = CountResult(syncStats, r.result)
    /\ syncQueue' = Tail(syncQueue)
    /\ UNCHANGED <<runNo, colLen, pc, opts, db, store, lastWrite,
                   stats, videos, batchNo, processed, item, outcome, sentTags,
                   exitCode, abortCause, prev, syncBookmarks, reported>>
    /\ UNCHANGED syncFetched
    /\ UNCHANGED nonSyncLogVars

\* the loop is over: matchedBookmarks is recounted from the results,
\* updateTagsFromDatabase returns and showUpdateStats prints the counts
UpdateTagsEnd ==
    /\ pc = "sync"
    /\ syncQueue = <<>>
    /\ syncStats' =
          IF syncFetched
          THEN [syncStats EXCEPT !.matched =
                   Cardinality({k \in 1..Len(syncResults) :
                                   syncResults[k].bookmarkId # 0})]
          ELSE syncStats
    /\ reported' = "sync"
    /\ pc' = "finally"
    /\ UNCHANGED <<runNo, colLen, opts, db, store, lastWrite,
                   stats, videos, batchNo, processed, item, outcome, sentTags,
                   exitCode, abortCause, prev, syncQueue, syncBookmarks>>
    /\ UNCHANGED auxVars

\* ------------------------------------------------ the ends of run()
\* catch (error) { await this.handleError(...); Deno.exit(1); }: the process
\* terminates inside the catch block
HandleError ==
    /\ pc = "caught"
    /\ exitCode' = "error"
    /\ pc' = "exited"
    /\ UNCHANGED <<runNo, colLen, opts, db, store, lastWrite,
                   stats, videos, batchNo, processed, item, outcome, sentTags,
                   abortCause, prev, syncQueue, syncBookmarks, syncStats,
                   reported>>
    /\ UNCHANGED auxVars

\* Database.close
Close(handle) == IF handle = "open" THEN "closed" ELSE handle

\* finally { if (this.database) this.database.close(); } after a return
Finally ==
    /\ pc = "finally"
    /\ db' = Close(db)
    /\ exitCode' = "ok"
    /\ pc' = "exited"
    /\ UNCHANGED <<runNo, colLen, opts, store, lastWrite,
                   stats, videos, batchNo, processed, item, outcome, sentTags,
                   abortCause, prev, syncQueue, syncBookmarks, syncStats,
                   reported>>
    /\ UNCHANGED auxVars

\* what the next run remembers of this one: whether it was a plain run
\* (no force, no dry run) that returned, dispatched every unprocessed
\* candidate and saw every summarizer call and every store write succeed,
\* and then its successful count
RunSummary ==
    LET plain == /\ opts.mode = "process" /\ ~opts.force /\ ~opts.dryRun
                 /\ exitCode = "ok"
                 /\ stats.failed = 0
                 /\ \A k \in 1..Len(outcome) : outcome[k] = "ok"
                 /\ stats.processed = stats.videoBookmarks - stats.skipped
    IN [plain |-> plain, successful |-> IF plain THEN stats.successful ELSE 0]

\* the program is started again on the same store and collection
NextRun ==
    /\ pc = "exited"
    /\ runNo < MaxRuns
    /\ runNo' = runNo + 1
    /\ prev' = RunSummary
    /\ pc' = "start"
    /\ opts' = NoOpts
    /\ db' = "none"
    /\ stats' = ZeroStats
    /\ videos' = <<>>
    /\ batchNo' = 0
    /\ processed' = 0
    /\ item' = <<>>
    /\ outcome' = <<>>
    /\ sentTags' = <<>>
    /\ exitCode' = "running"
    /\ abortCause' = "none"
    /\ syncQueue' = <<>>
    /\ syncBookmarks' = <<>>
    /\ syncStats' = ZeroSyncStats
    /\ reported' = "none"
    /\ UNCHANGED <<colLen, store, lastWrite>>
    /\ UNCHANGED auxVars

Next ==
    \/ StartRun
    \/ InitDatabase
    \/ ListProcessedVideos
    \/ UpdateTagsBegin
    \/ SyncRecord
    \/ UpdateTagsEnd
    \/ HandlePlaylistOperations
    \/ TestConnections
    \/ EnsureOutputDirectory
    \/ ProcessVideosFetch
    \/ StartBatch
    \/ \E i \in 1..Len(item) : BeginSummarize(i)
    \/ \E i \in 1..Len(item) : SettleSummarize(i)
    \/ \E i \in 1..Len(item) : FinishTagUpdate(i)
    \/ JoinBatch
    \/ BatchPause
    \/ ShowFinalResults
    \/ HandleError
    \/ Finally
    \/ NextRun

Spec == Init /\ [][Next]_vars

\* ===================================================================
\* Properties of the run (specification Spec)
\* ===================================================================
Failed(i) == outcome[i] \in {"fail", "throw"}

InFlight == {i \in 1..Len(item) : item[i] = "summarizing"}

\* a record under the item's bookmark id or under its canonical video ID
HasRecord(b) ==
    \E k \in 1..Len(store) :
        \/ store[k].raindrop_bookmark_id = b._id
        \/ /\ DbExtractVideoId(b.link) # NoId
           /\ store[k].video_id = DbExtractVideoId(b.link)

\* C1: when processVideosConcurrently has returned, failed is the number of
\* items whose summarizer call failed, successful the number of the others,
\* and every item whose call succeeded (and whose store write did not fail)
\* has a persisted ProcessedRecord.
C1_BatchIsolation ==
    (pc = "report" /\ Len(videos) > 0) =>
        /\ stats.failed = Cardinality({i \in 1..Len(videos) : Failed(i)})
        /\ stats.successful = Cardinality({i \in 1..Len(videos) : ~Failed(i)})
        /\ \A i \in 1..Len(videos) : outcome[i] = "ok" => HasRecord(videos[i])

\* C2: the number of summarizeVideo invocations started and not yet settled
\* never exceeds the concurrency limit.
C2_ConcurrencyCap == Cardinality(InFlight) <= Concurrency

\* C2 witness: the cap is reached while more candidates wait
C2_CapReached ==
    /\ pc = "batch"
    /\ Concurrency >= 2
    /\ Cardinality(InFlight) = Concurrency
    /\ Len(videos) > Concurrency

\* C3: a second plain run (no force, no dry run) after a plain run that
\* dispatched every candidate successfully dispatches nothing, succeeds on
\* nothing, and skips as many items as the first run succeeded on (every
\* store read of the second run succeeding).
C3_IdempotentDedup ==
    (/\ runNo >= 2 /\ prev.plain /\ readFailed = {}
     /\ opts.mode = "process" /\ ~opts.force /\ ~opts.dryRun
     /\ pc \in {"dispatch", "batch", "pause", "report"}) =>
        /\ stats.processed = 0
        /\ stats.successful = 0
        /\ stats.skipped = prev.successful

RowsOf(v) == {k \in 1..Len(store) : store[k].video_id = v}

\* C4: the store never holds two records with the same canonical video ID,
\* and the record of an ID is the one of the last markVideoProcessed for it.
C4_OneRecordPerVideoId ==
    \A v \in IdTokens :
        /\ Cardinality(RowsOf(v)) <= 1
        /\ lastWrite[v] # 0 =>
              \E k \in RowsOf(v) : store[k].raindrop_bookmark_id = lastWrite[v]

\* C4 witness: after a run that recorded every candidate, a --force run has
\* two items of one batch with the same video ID, and both have written
C4_RacingOverwrite ==
    /\ runNo >= 2 /\ prev.plain /\ prev.successful >= 1
    /\ opts.force /\ pc = "batch"
    /\ \E i, j \in 1..Len(videos) :
          /\ i < j /\ ChunkOf(i) = ChunkOf(j)
          /\ outcome[i] = "ok" /\ outcome[j] = "ok"
          /\ DbExtractVideoId(videos[i].link) # NoId
          /\ DbExtractVideoId(videos[i].link) = DbExtractVideoId(videos[j].link)
          /\ videos[i]._id # videos[j]._id

\* C5: an item of a later batch has started only if every item of every
\* earlier batch has settled.
C5_BatchBarrier ==
    \A i, j \in 1..Len(item) :
        (ChunkOf(i) < ChunkOf(j) /\ item[j] # "queued") => item[i] = "done"

\* C5 witness: an item of a later batch is being summarized after an item
\* of an earlier batch failed
C5_SecondBatchStarted ==
    \E i, j \in 1..Len(item) :
        /\ ChunkOf(i) < ChunkOf(j)
        /\ item[j] = "summarizing"
        /\ Failed(i)

\* C9: the process never terminates with the store connection still open.
C9_CloseOnEveryExit == pc = "exited" => db # "open"

SetupCauses == {"initDatabase", "ensureOutputDirectory"}

\* C10 (as claimed): only a failure to initialize the store or to create the
\* output directory aborts run().
C10_OnlySetupAborts == exitCode = "error" => abortCause \in SetupCauses

AbortCauses == SetupCauses \cup {"listProcessed", "testConnections", "fetchBookmarks",
                                 "getCompletePlaylist"}

\* C10 (amended): run() is aborted only by a failure of initDatabase, of the
\* --list-processed read, of the connection test, of ensureOutputDirectory, of
\* fetchBookmarks in processVideos or of the playlist fetch in playlist
\* mode, all before any item is dispatched; a
\* failed item and a failed sync record never abort it: the run returns and
\* has reported its counts.
C10_AbortOnlyBeforeDispatch ==
    /\ abortCause # "none" => abortCause \in AbortCauses /\ Len(videos) = 0
    /\ exitCode = "error" => abortCause # "none"
    /\ (pc = "exited" /\ \E i \in 1..Len(videos) : Failed(i)) =>
           exitCode = "ok" /\ reported = "stats"
    /\ (pc = "exited" /\ syncStats.failedUpdates > 0) =>
           exitCode = "ok" /\ reported = "sync"

\* C10 witness: a run with a failed item has returned and reported
C10_FailedItemReported ==
    /\ pc = "exited" /\ exitCode = "ok" /\ reported = "stats"
    /\ \E i \in 1..Len(videos) : outcome[i] = "throw"
    /\ \E i \in 1..Len(videos) : outcome[i] = "ok"

\* the state right after processVideos has chosen videosToProcess
JustFiltered ==
    /\ pc = "dispatch"
    /\ batchNo = 1
    /\ \A i \in 1..Len(item) : item[i] = "queued"

\* the video bookmarks of the run
VideoBookmarks ==
    FilterVideoBookmarks(FetchBookmarksAll(Source, opts.maxVideos * 3))

\* the video bookmarks that have no record or whose read failed
Candidates ==
    Filter(VideoBookmarks,
           {k \in 1..Len(VideoBookmarks) :
               \/ ~IsBookmarkProcessed(store, VideoBookmarks[k]._id)
               \/ VideoBookmarks[k]._id \in readFailed})

\* C16: without --force, the items chosen for dispatch are the first
\* maxVideos of the video bookmarks that have no record or whose
\* isBookmarkProcessed read failed, in order; skipped counts exactly the
\* others; and a run in which a read failed is not aborted.
C16_FailOpenRead ==
    /\ (JustFiltered /\ opts.mode = "process" /\ ~opts.force) =>
          /\ videos = Prefix(Candidates, opts.maxVideos)
          /\ stats.skipped = Len(VideoBookmarks) - Len(Candidates)
          /\ stats.processed = Len(videos)
    /\ (readFailed # {} /\ pc \in {"dispatch", "report"}) => abortCause = "none"

\* C16 witness: in a second run a recorded bookmark's read fails and the
\* bookmark is dispatched again, next to a bookmark that has no record
C16_FailedReadDispatched ==
    /\ JustFiltered
    /\ ~opts.force
    /\ readFailed # {}
    /\ \E i \in 1..Len(videos) :
          /\ videos[i]._id \in readFailed
          /\ IsBookmarkProcessed(store, videos[i]._id)
    /\ \E i \in 1..Len(videos) : ~IsBookmarkProcessed(store, videos[i]._id)

\* a run of processVideos or processPlaylistVideos with --dry-run
DryRun == opts.dryRun /\ opts.mode \in {"process", "playlist"}

\* C19: no step of a --dry-run run in process or playlist mode starts a
\* summarizer call, writes a record or sends a tag update: the store is the
\* same after every step, no item is ever dispatched and no tag payload is
\* ever sent.
C19_DryRunFrame ==
    [][DryRun => /\ store' = store
                 /\ lastWrite' = lastWrite
                 /\ videos' = <<>> /\ item' = <<>>
                 /\ sentTags' = <<>>
                 /\ syncCalls' = syncCalls]_vars

\* C19 witness: a --dry-run run over a store that holds records has listed
\* at least one video it would process, and has returned
C19_DryRunOverRecords ==
    /\ pc = "exited" /\ exitCode = "ok"
    /\ opts.mode = "process" /\ opts.dryRun
    /\ stats.processed >= 1
    /\ Len(store) >= 1

Succeeded(i) == outcome[i] \in {"ok", "okNoWrite"}

\* C20: at every moment successful is the number of dispatched items whose
\* summarizer call succeeded and failed the number of those whose call
\* failed or threw, every settled item is in one of the two sets, and when
\* the dispatch is over successful + failed = processed = the number of
\* dispatched items; skipped is 0 with --force and otherwise the number of
\* video bookmarks the dedup filter removed.
C20_CountersAddUp ==
    /\ stats.successful = Cardinality({i \in 1..Len(videos) : Succeeded(i)})
    /\ stats.failed = Cardinality({i \in 1..Len(videos) : Failed(i)})
    /\ \A i \in 1..Len(videos) :
           item[i] \in {"tagging", "done"} <=> (Succeeded(i) \/ Failed(i))
    /\ (pc \in {"report", "finally", "exited"} /\ Len(videos) > 0) =>
           /\ stats.successful + stats.failed = stats.processed
           /\ stats.processed = Len(videos)
    /\ (opts.mode = "process" /\ opts.force) => stats.skipped = 0
    /\ (JustFiltered /\ opts.mode = "process" /\ ~opts.force) =>
           stats.skipped = Len(VideoBookmarks) - Len(Candidates)

\* C20 witness: a run of three items in batches of two has finished with a
\* failed result, a thrown error and a success whose store write failed
C20_MixedOutcomes ==
    /\ pc = "report" /\ Len(videos) = 3 /\ Concurrency = 2
    /\ \E i, j, k \in 1..Len(videos) :
          /\ outcome[i] = "fail" /\ outcome[j] = "throw"
          /\ outcome[k] = "okNoWrite"

\* the canonical video ID of dispatched item i
VideoIdOf(i) == DbExtractVideoId(videos[i].link)

\* C21: without --force (and with every store read succeeding), no item
\* chosen for dispatch has a canonical video ID that already has a record.
C21_NoRedispatchOfRecordedVideo ==
    (JustFiltered /\ opts.mode = "process" /\ ~opts.force /\ readFailed = {}) =>
        \A i \in 1..Len(videos) :
            VideoIdOf(i) = NoId \/ RowsOf(VideoIdOf(i)) = {}

\* C22: two items of one batch that have a canonical video ID have
\* different ones.
C22_DistinctIdsInBatch ==
    \A i, j \in 1..Len(videos) :
        (i < j /\ ChunkOf(i) = ChunkOf(j) /\ VideoIdOf(i) # NoId) =>
            VideoIdOf(i) # VideoIdOf(j)

\* the items that have entered processSingleVideo
Started == {i \in 1..Len(item) : item[i] # "queued"}

\* C23: the dispatched list is the first maxVideos, in fetch order, of the
\* video bookmarks the dedup filter kept (of all video bookmarks with
\* --force); no run dispatches more than maxVideos items; the items started
\* so far are the first batchNo slices of size concurrency of that list,
\* and when the dispatch is over every item has settled.
C23_BudgetAndBatches ==
    /\ (JustFiltered /\ opts.mode = "process") =>
           videos = Prefix(IF opts.force THEN VideoBookmarks ELSE Candidates,
                           opts.maxVideos)
    /\ Len(videos) <= opts.maxVideos
    /\ pc = "batch" => Started = 1..Min(batchNo * Concurrency, Len(videos))
    /\ pc \in {"dispatch", "pause"} =>
           Started = 1..Min((batchNo - 1) * Concurrency, Len(videos))
    /\ (pc = "report" /\ Len(videos) > 0) =>
           \A i \in 1..Len(videos) : item[i] = "done"

\* C23 witness: the budget cut the candidate list, and the second, shorter
\* batch of a list of three is running
C23_ShortLastBatch ==
    /\ pc = "batch" /\ opts.mode = "process"
    /\ Len(videos) = 3 /\ Concurrency = 2 /\ batchNo = 2
    /\ stats.videoBookmarks - stats.skipped > stats.processed
    /\ item[3] = "summarizing"

\* C25: the record written for a successfully summarized item that got
\* generated tags carries the combined tag list that was sent to the
\* item's bookmark.
C25_RecordCarriesTags ==
    \A i \in 1..Len(videos) :
        (/\ outcome[i] = "ok" /\ sentTags[i] # <<>>
         /\ VideoIdOf(i) # NoId /\ lastWrite[VideoIdOf(i)] = videos[i]._id) =>
            \A k \in RowsOf(VideoIdOf(i)) : store[k].tags = sentTags[i]

\* C29: in a run without --force, every video bookmark of the collection
\* either has a record or is among the video bookmarks the run examines, so
\* that a later run can reach what the earlier ones left.
C29_UnprocessedBookmarksInReach ==
    (JustFiltered /\ opts.mode = "process" /\ ~opts.force) =>
        \A b \in Range(FilterVideoBookmarks(Source)) :
            IsBookmarkProcessed(store, b._id) \/ b \in Range(VideoBookmarks)

\* ===================================================================
\* The inline tag merge of processSingleVideo on arbitrary tag lists
\* ===================================================================
MaxTagLen == 2

TagNames == {"a", "b", "c"}

TagLists == UNION {[1..n -> TagNames] : n \in 0..MaxTagLen}

TagInit ==
    /\ JobIdle /\ LookupIdle /\ EnvIdle /\ ItemIdle /\ FilenameIdle /\ ParseErrorIdle /\ DedupIdle /\ SyncLogIdle /\ ConfigIdle /\ RunIdle /\ MatchIdle /\ FetchIdle
    /\ tgPhase = "summarized"
    /\ tgOrig \in TagLists
    /\ tgGen \in TagLists
    /\ tgSent = <<>>

\* if (result.generatedTags && result.generatedTags.length > 0): merge and
\* call updateBookmarkTags(bookmark._id, allTags)
UpdateGeneratedTags ==
    /\ tgPhase = "summarized"
    /\ Len(tgGen) > 0
    /\ tgSent' = MergeTags(tgOrig, tgGen)
    /\ tgPhase' = "sent"
    /\ UNCHANGED <<tgOrig, tgGen, runVars, nonTagVars>>

\* no tags were generated: no call
NoGeneratedTags ==
    /\ tgPhase = "summarized"
    /\ Len(tgGen) = 0
    /\ tgPhase' = "nocall"
    /\ UNCHANGED <<tgOrig, tgGen, tgSent, runVars, nonTagVars>>

TagNext == UpdateGeneratedTags \/ NoGeneratedTags

TagSpec == TagInit /\ [][TagNext]_vars

\* C7: the tag list sent to updateBookmarkTags has exactly the members of
\* original \cup generated, each once, and any reordering of the two input
\* lists gives the same set.
C7_MergeIsSetUnion ==
    tgPhase = "sent" =>
        /\ Range(tgSent) = Range(tgOrig) \cup Range(tgGen)
        /\ Cardinality(Range(tgSent)) = Len(tgSent)
        /\ \A o \in TagLists, g \in TagLists :
              (Range(o) = Range(tgOrig) /\ Range(g) = Range(tgGen)) =>
                  Range(MergeTags(o, g)) = Range(tgSent)

\* C7 witness: original [a,b] plus generated [b,c] was sent as 3 tags
C7_ExampleSent ==
    /\ tgPhase = "sent"
    /\ tgOrig = <<"a", "b">>
    /\ tgGen = <<"b", "c">>
    /\ Len(tgSent) = 3

\* ===================================================================
\* The batch tag-sync matcher on the spellings of one video URL
\* ===================================================================
ProtoChoices == {<<>>, <<"http://">>, <<"https://">>}

WwwChoices == {<<>>, <<"www.">>}

SlashChoices == {<<>>, <<"/">>}

\* the spellings of the watch URL of video id: protocol, www. prefix,
\* trailing slash of the path, extra and reordered query parameters
WatchSpellings(id) ==
    {p \o w \o <<"youtube.com", "/", "watch">> \o sl \o <<"?">> \o q :
        p \in ProtoChoices, w \in WwwChoices, sl \in SlashChoices,
        q \in {<<"v=", id>>,
               <<"v=", id, "&", "feature=share">>,
               <<"feature=share", "&", "v=", id>>}}

\* the spellings of the short URL of video id
ShortSpellings(id) ==
    {p \o w \o <<"youtu.be", "/", id>> \o sl \o q :
        p \in ProtoChoices, w \in WwwChoices, sl \in SlashChoices,
        q \in {<<>>, <<"?", "t=10">>}}

MatchIds == {"XYZxyzXYZ01"}

MatchInit ==
    /\ JobIdle /\ LookupIdle /\ EnvIdle /\ ItemIdle /\ FilenameIdle /\ ParseErrorIdle /\ DedupIdle /\ SyncLogIdle /\ ConfigIdle /\ RunIdle /\ TagIdle /\ FetchIdle
    /\ mtPhase = "record"
    /\ \E id \in MatchIds :
          \/ mtStored \in WatchSpellings(id) /\ mtLink \in WatchSpellings(id)
          \/ mtStored \in ShortSpellings(id) /\ mtLink \in ShortSpellings(id)
    /\ mtResult = 0

\* processVideoFromDatabase calls findMatchingBookmark(video.url, bookmarks)
\* with the one bookmark of the collection
MatchRecord ==
    /\ mtPhase = "record"
    /\ mtResult' = FindMatchingBookmark(mtStored, <<[_id |-> 1, link |-> mtLink,
                                                     tags |-> <<>>]>>)
    /\ mtPhase' = "matched"
    /\ UNCHANGED <<mtStored, mtLink, runVars, nonMatchVars>>

MatchNext == MatchRecord

MatchSpec == MatchInit /\ [][MatchNext]_vars

\* C8: a stored URL and a bookmark URL that differ only in protocol, www.
\* prefix, trailing slash or extra/reordered query parameters are matched.
C8_SpellingsMatch == mtPhase = "matched" => mtResult = 1

\* ===================================================================
\* RaindropAPI.fetchBookmarks and fetchBookmarksWithVideoFiltering, page
\* by page, against a source that answers every page request with a
\* page of its choice, an error response, or no response at all
\* ===================================================================
MaxPages == 3

PageSizes == {0, 1, 2, DEFAULT_PER_PAGE - 1, DEFAULT_PER_PAGE}

MaxItemsChoices ==
    {NoLimit, 1, DEFAULT_PER_PAGE - 1, DEFAULT_PER_PAGE, DEFAULT_PER_PAGE + 1,
     2 * DEFAULT_PER_PAGE - 1, 2 * DEFAULT_PER_PAGE, 2 * DEFAULT_PER_PAGE + 1,
     MaxPages * DEFAULT_PER_PAGE}

\* maxVideos of fetchBookmarksWithVideoFiltering; NoLimit stands for undefined
MaxVideosChoices == {NoLimit, 1, 2, DEFAULT_PER_PAGE + 1}

\* how many items of a page of n items the detector classifies as video
VideoCounts(n) == {0, 1, 2, n} \cap 0..n

\* HTTP statuses the source answers a page request with
StatusChoices == {200, 401, 403, 404, 429, 500}

\* the message field of an error body; "" when the body has none
BodyMessages == {"", "Too many requests"}

\* Response.ok
ResponseOk(status) == status >= 200 /\ status <= 299

NoError == [name |-> "none", hasStatus |-> FALSE, statusCode |-> 0,
            message |-> ""]

CredentialMessage ==
    "Invalid Raindrop token. Please check your RAINDROP_TOKEN environment variable."

\* `HTTP ${response.status}: ${response.statusText}`
StatusLine(status) ==
    CASE status = 401 -> "HTTP 401: Unauthorized"
      [] status = 403 -> "HTTP 403: Forbidden"
      [] status = 404 -> "HTTP 404: Not Found"
      [] status = 429 -> "HTTP 429: Too Many Requests"
      [] status = 500 -> "HTTP 500: Internal Server Error"
      [] OTHER -> "HTTP"

\* an error that carries no status code
ErrorWithoutStatus(status, bodyMessage) ==
    [name |-> "RaindropAPIError", hasStatus |-> FALSE, statusCode |-> 0,
     message |-> "Failed to fetch bookmarks"]

\* the RaindropAPIError fetchBookmarksPage throws for a response that is
\* not ok
FetchBookmarksPageError(status, bodyMessage) ==
    [name |-> "RaindropAPIError", hasStatus |-> TRUE, statusCode |-> status,
     message |->
        IF status = 401 THEN CredentialMessage
        ELSE IF status = 403
        THEN "Access denied. Please check your Raindrop token permissions."
        ELSE IF status = 404
        THEN "Collection not found. Please check if collection ID exists and is accessible."
        ELSE IF bodyMessage # "" THEN bodyMessage
        ELSE StatusLine(status)]

\* fetch() itself rejects: a TypeError, not a RaindropAPIError
NetworkError == [name |-> "TypeError", hasStatus |-> FALSE, statusCode |-> 0,
                 message |-> "error sending request"]

\* the catch block of both loops: a RaindropAPIError is rethrown as it is,
\* anything else is wrapped
Rethrown(error) ==
    IF error.name = "RaindropAPIError" THEN error
    ELSE [name |-> "RaindropAPIError", hasStatus |-> FALSE, statusCode |-> 0,
          message |-> "Failed to fetch bookmarks: " \o error.message]

\* the items of page number page when the source returns n of them
PageItems(page, n) == [k \in 1..n |-> page * DEFAULT_PER_PAGE + k]

\* while (hasMore && (!maxItems || allBookmarks.length < maxItems))
LoopCondition(hasMore, maxItems, n) ==
    hasMore /\ (maxItems = NoLimit \/ n < maxItems)

\* a delay after every full page
DelayAfterFullPage(hasMore, maxItems, n) == hasMore

\* if (hasMore && (!maxItems || allBookmarks.length < maxItems)) delay
DelayCondition(hasMore, maxItems, n) ==
    hasMore /\ (maxItems = NoLimit \/ n < maxItems)

\* enough as soon as that many items of any kind were fetched
EnoughItems(videoCount, itemCount, maxVideos) == itemCount >= maxVideos

\* if (videoCount >= maxVideos) hasMore = false
EnoughVideos(videoCount, itemCount, maxVideos) == videoCount >= maxVideos

FetchInit ==
    /\ JobIdle /\ LookupIdle /\ EnvIdle /\ ItemIdle /\ FilenameIdle /\ ParseErrorIdle /\ DedupIdle /\ SyncLogIdle /\ ConfigIdle /\ RunIdle /\ TagIdle /\ MatchIdle
    /\ fMode \in {"fetchBookmarks", "withVideoFiltering"}
    /\ IF fMode = "fetchBookmarks"
       THEN /\ fPc = "loop"
            /\ fMaxItems \in MaxItemsChoices
            /\ fDetector = FALSE
            /\ fMaxVideos = NoLimit
       ELSE /\ fPc = "entry"
            /\ fMaxItems = NoLimit
            /\ fDetector \in BOOLEAN
            /\ fMaxVideos \in MaxVideosChoices
    /\ fAll = <<>>
    /\ fPage = 0
    /\ fHasMore = TRUE
    /\ fPageLens = <<>>
    /\ fVideoLens = <<>>
    /\ fVideoCount = 0
    /\ fDelays = 0
    /\ fLast = "none"
    /\ fStatus = 0
    /\ fError = NoError
    /\ fResult = <<>>

\* the head of fetchBookmarksWithVideoFiltering: without a detector or a
\* target it is fetchBookmarks with maxItems = maxVideos * 3
FilteringEntry ==
    /\ fPc = "entry"
    /\ fPc' = "loop"
    /\ IF ~fDetector \/ fMaxVideos = NoLimit
       THEN /\ fMode' = "fetchBookmarks"
            /\ fMaxItems' = IF fMaxVideos # NoLimit THEN fMaxVideos * 3
                            ELSE NoLimit
       ELSE UNCHANGED <<fMode, fMaxItems>>
    /\ UNCHANGED <<fDetector, fMaxVideos, fAll, fPage, fHasMore, fPageLens,
                   fVideoLens, fVideoCount, fDelays, fLast, fStatus, fError,
                   fResult, runVars, nonFetchVars>>

\* the page request fails: fetchBookmarksPage throws, the catch block
\* rethrows and the call ends without a result
PageRequestFails(error, status) ==
    /\ fStatus' = status
    /\ fError' = Rethrown(error)
    /\ fPc' = "thrown"
    /\ fLast' = "fetch"
    /\ UNCHANGED <<fAll, fPage, fHasMore, fPageLens, fVideoLens, fVideoCount>>

\* one iteration of the loop of fetchBookmarks up to the delay: the page
\* request and what follows it.  The source holds at most MaxPages pages,
\* so its last page is not a full one.
FetchPage ==
    /\ fPc = "loop"
    /\ fMode = "fetchBookmarks"
    /\ LoopCondition(fHasMore, fMaxItems, Len(fAll))
    /\ \/ PageRequestFails(NetworkError, 0)
       \/ \E status \in StatusChoices, bodyMessage \in BodyMessages :
             /\ ~ResponseOk(status)
             /\ PageRequestFails(FetchBookmarksPageError(status, bodyMessage),
                                 status)
       \/ \E status \in StatusChoices, n \in PageSizes :
             /\ ResponseOk(status)
             /\ fPage = MaxPages - 1 => n < DEFAULT_PER_PAGE
             /\ fStatus' = status
             /\ fLast' = "fetch"
             /\ fPageLens' = Append(fPageLens, n)
             /\ IF n = 0
                THEN /\ fHasMore' = FALSE
                     /\ fPc' = "after"
                     /\ UNCHANGED <<fAll, fPage>>
                ELSE /\ fAll' = fAll \o PageItems(fPage, n)
                     /\ fHasMore' = (n = DEFAULT_PER_PAGE)
                     /\ fPage' = fPage + 1
                     /\ fPc' = IF DelayCondition(fHasMore', fMaxItems, Len(fAll'))
                               THEN "delay" ELSE "loop"
             /\ UNCHANGED <<fVideoLens, fVideoCount, fError>>
    /\ UNCHANGED <<fMode, fDetector, fMaxVideos, fMaxItems, fDelays, fResult,
                   runVars, nonFetchVars>>

\* one iteration of the loop of fetchBookmarksWithVideoFiltering up to the
\* delay; v of the n items of the page are classified as video
FilteringFetchPage ==
    /\ fPc = "loop"
    /\ fMode = "withVideoFiltering"
    /\ fHasMore /\ fVideoCount < fMaxVideos
    /\ \/ PageRequestFails(NetworkError, 0)
       \/ \E status \in StatusChoices, bodyMessage \in BodyMessages :
             /\ ~ResponseOk(status)
             /\ PageRequestFails(FetchBookmarksPageError(status, bodyMessage),
                                 status)
       \/ \E status \in StatusChoices, n \in PageSizes :
          \E v \in VideoCounts(n) :
             /\ ResponseOk(status)
             /\ fPage = MaxPages - 1 => n < DEFAULT_PER_PAGE
             /\ fStatus' = status
             /\ fLast' = "fetch"
             /\ fPageLens' = Append(fPageLens, n)
             /\ IF n = 0
                THEN /\ fHasMore' = FALSE
                     /\ fPc' = "after"
                     /\ UNCHANGED <<fAll, fPage, fVideoLens, fVideoCount>>
                ELSE /\ fVideoCount' = fVideoCount + v
                     /\ fVideoLens' = Append(fVideoLens, v)
                     /\ fAll' = fAll \o PageItems(fPage, n)
                     /\ fPage' = fPage + 1
                     /\ fHasMore' =
                           IF EnoughVideos(fVideoCount', Len(fAll'), fMaxVideos)
                           THEN FALSE ELSE n = DEFAULT_PER_PAGE
                     /\ fPc' = IF fHasMore' THEN "delay" ELSE "loop"
             /\ UNCHANGED fError
    /\ UNCHANGED <<fMode, fDetector, fMaxVideos, fMaxItems, fDelays, fResult,
                   runVars, nonFetchVars>>

\* await this.delay(RATE_LIMIT_DELAY) elapses
RateLimitDelay ==
    /\ fPc = "delay"
    /\ fDelays' = fDelays + 1
    /\ fLast' = "delay"
    /\ fPc' = "loop"
    /\ UNCHANGED <<fMode, fDetector, fMaxVideos, fMaxItems, fAll, fPage,
                   fHasMore, fPageLens, fVideoLens, fVideoCount, fStatus,
                   fError, fResult, runVars, nonFetchVars>>

\* the loop of fetchBookmarks ends: trim to maxItems and return
FetchReturn ==
    /\ fMode = "fetchBookmarks"
    /\ \/ fPc = "after"
       \/ fPc = "loop" /\ ~LoopCondition(fHasMore, fMaxItems, Len(fAll))
    /\ fResult' = IF fMaxItems # NoLimit /\ Len(fAll) > fMaxItems
                  THEN SubSeq(fAll, 1, fMaxItems) ELSE fAll
    /\ fPc' = "returned"
    /\ UNCHANGED <<fMode, fDetector, fMaxVideos, fMaxItems, fAll, fPage,
                   fHasMore, fPageLens, fVideoLens, fVideoCount, fDelays,
                   fLast, fStatus, fError, runVars, nonFetchVars>>

\* the loop of fetchBookmarksWithVideoFiltering ends: return allBookmarks
FilteringReturn ==
    /\ fMode = "withVideoFiltering"
    /\ \/ fPc = "after"
       \/ fPc = "loop" /\ ~(fHasMore /\ fVideoCount < fMaxVideos)
    /\ fResult' = fAll
    /\ fPc' = "returned"
    /\ UNCHANGED <<fMode, fDetector, fMaxVideos, fMaxItems, fAll, fPage,
                   fHasMore, fPageLens, fVideoLens, fVideoCount, fDelays,
                   fLast, fStatus, fError, runVars, nonFetchVars>>

FetchNext ==
    \/ FilteringEntry
    \/ FetchPage
    \/ FilteringFetchPage
    \/ RateLimitDelay
    \/ FetchReturn
    \/ FilteringReturn

FetchSpec == FetchInit /\ [][FetchNext]_vars

RECURSIVE SumSeq(_)
SumSeq(s) == IF s = <<>> THEN 0 ELSE Head(s) + SumSeq(Tail(s))

Limited(n) == IF fMaxItems # NoLimit /\ n > fMaxItems THEN fMaxItems ELSE n

\* C6: when fetchBookmarks returns, every page but the last one fetched was
\* a full page requested with fewer than maxItems items accumulated, the
\* last one is short or reaches maxItems, the result is the concatenation
\* of the pages in order trimmed to maxItems, one delay was taken between
\* each two consecutive page fetches and none after the last; and whenever
\* a delay has elapsed another page is requested.
C6_PagingAndDelay ==
    /\ (fPc = "returned" /\ fMode = "fetchBookmarks") =>
          /\ Len(fPageLens) >= 1
          /\ \A k \in 1..(Len(fPageLens) - 1) :
                /\ fPageLens[k] = DEFAULT_PER_PAGE
                /\ fMaxItems = NoLimit \/ k * DEFAULT_PER_PAGE < fMaxItems
          /\ \/ fPageLens[Len(fPageLens)] < DEFAULT_PER_PAGE
             \/ fMaxItems # NoLimit /\ SumSeq(fPageLens) >= fMaxItems
          /\ fResult = [k \in 1..Limited(SumSeq(fPageLens)) |-> k]
          /\ fDelays = Len(fPageLens) - 1
          /\ fLast = "fetch"
    /\ (fPc = "loop" /\ fLast = "delay" /\ fMode = "fetchBookmarks") =>
          LoopCondition(fHasMore, fMaxItems, Len(fAll))

\* C6 witness: one full page, then one partial page, then the return
C6_FullThenPartial ==
    /\ fPc = "returned"
    /\ fMode = "fetchBookmarks"
    /\ fPageLens = <<DEFAULT_PER_PAGE, 1>>
    /\ Len(fResult) = DEFAULT_PER_PAGE + 1
    /\ fDelays = 1

\* C11: a page request answered with a status outside 200..299 ends either
\* fetch function by throwing a RaindropAPIError that carries that status;
\* its message is the credential message exactly when the status is 401;
\* and a call that threw has returned no list, whatever it had accumulated.
C11_NonOkResponseThrows ==
    /\ (fStatus # 0 /\ ~ResponseOk(fStatus)) =>
          /\ fPc = "thrown"
          /\ fError.name = "RaindropAPIError"
          /\ fError.hasStatus
          /\ fError.statusCode = fStatus
          /\ (fError.message = CredentialMessage) <=> (fStatus = 401)
    /\ fPc = "thrown" => fResult = <<>>

\* C11 witness: fetchBookmarksWithVideoFiltering has accumulated a full
\* page when the next page request is answered 401
C11_CredentialErrorAfterFullPage ==
    /\ fPc = "thrown"
    /\ fMode = "withVideoFiltering"
    /\ fStatus = 401
    /\ Len(fAll) = DEFAULT_PER_PAGE
    /\ fError.message = CredentialMessage

\* C15: when fetchBookmarksWithVideoFiltering, called with a detector and
\* a target, returns, every page but the last one fetched was a full page
\* after which the number of items classified as video was still below
\* maxVideos; the last page is short, empty, or brings the number of
\* videos to maxVideos; the result holds every item of every page fetched;
\* one delay was taken between each two page fetches and none after the
\* last; and whenever a delay has elapsed another page is requested.
C15_StopsOnVideoCount ==
    /\ (fPc = "returned" /\ fMode = "withVideoFiltering") =>
          /\ Len(fPageLens) >= 1
          /\ \A k \in 1..(Len(fPageLens) - 1) :
                /\ fPageLens[k] = DEFAULT_PER_PAGE
                /\ SumSeq(SubSeq(fVideoLens, 1, k)) < fMaxVideos
          /\ \/ fPageLens[Len(fPageLens)] < DEFAULT_PER_PAGE
             \/ SumSeq(fVideoLens) >= fMaxVideos
          /\ fVideoCount = SumSeq(fVideoLens)
          /\ fResult = [k \in 1..SumSeq(fPageLens) |-> k]
          /\ fDelays = Len(fPageLens) - 1
          /\ fLast = "fetch"
    /\ (fPc = "loop" /\ fLast = "delay" /\ fMode = "withVideoFiltering") =>
          fHasMore /\ fVideoCount < fMaxVideos

\* C15 witness: the target is 2 videos; the first full page holds one
\* video, so paging goes on although 50 items are fetched; the second full
\* page holds the second video and paging stops there
C15_SecondPageReachesTarget ==
    /\ fPc = "returned"
    /\ fMode = "withVideoFiltering"
    /\ fMaxVideos = 2
    /\ fPageLens = <<DEFAULT_PER_PAGE, DEFAULT_PER_PAGE>>
    /\ fVideoLens = <<1, 1>>
    /\ Len(fResult) = 2 * DEFAULT_PER_PAGE
    /\ fDelays = 1

\* ===================================================================
\* CLI.parseArguments and ConfigManager.loadConfig: the concurrency limit
\* ===================================================================
DefaultConcurrency == 3

ConcurrencyCeiling == 10

\* texts of --concurrency and of the CONCURRENCY variable; "" is an option
\* or variable that is not given
NumberTexts == {"", "-2", "0", "1", "5", "10", "11", "7x", "abc"}

NaN == [nan |-> TRUE, n |-> 0]

Num(k) == [nan |-> FALSE, n |-> k]

\* parseInt
ParseInt(text) ==
    CASE text = "-2" -> Num(-2)
      [] text = "0" -> Num(0)
      [] text = "1" -> Num(1)
      [] text = "5" -> Num(5)
      [] text = "10" -> Num(10)
      [] text = "11" -> Num(11)
      [] text = "7x" -> Num(7)
      [] OTHER -> NaN

Undefined == [defined |-> FALSE, nan |-> FALSE, n |-> 0]

\* args.concurrency ? parseInt(args.concurrency) : undefined
OptionOf(text) ==
    IF text = "" THEN Undefined
    ELSE [defined |-> TRUE, nan |-> ParseInt(text).nan, n |-> ParseInt(text).n]

\* the truthiness of a number or undefined
Truthy(option) == option.defined /\ ~option.nan /\ option.n # 0

\* the concurrency of ConfigManager.buildConfig
BuildConcurrency(options, concurrencyEnv) ==
    IF Truthy(options) THEN options.n
    ELSE IF concurrencyEnv # ""
         /\ ~ParseInt(concurrencyEnv).nan
         /\ ParseInt(concurrencyEnv).n > 0
         /\ ParseInt(concurrencyEnv).n <= ConcurrencyCeiling
    THEN ParseInt(concurrencyEnv).n
    ELSE DefaultConcurrency

ConfigInit ==
    /\ JobIdle /\ LookupIdle /\ EnvIdle /\ ItemIdle /\ FilenameIdle /\ ParseErrorIdle /\ DedupIdle /\ SyncLogIdle /\ RunIdle /\ TagIdle /\ MatchIdle /\ FetchIdle
    /\ cfPc = "start"
    /\ cfCliArg \in NumberTexts
    /\ cfEnv \in NumberTexts
    /\ cfOptions = Undefined
    /\ cfConcurrency = 0

\* CLI.parseArguments: an option that is given and is not a number in
\* 1..10 ends the process
ParseArguments ==
    /\ cfPc = "start"
    /\ cfOptions' = OptionOf(cfCliArg)
    /\ cfPc' = IF cfOptions'.defined
                  /\ (\/ cfOptions'.nan
                      \/ cfOptions'.n <= 0
                      \/ cfOptions'.n > ConcurrencyCeiling)
               THEN "cliRejected" ELSE "parsed"
    /\ UNCHANGED <<cfCliArg, cfEnv, cfConcurrency, runVars, nonConfigVars>>

\* ConfigManager.loadConfig: buildConfig, then validateConfig
LoadConfig ==
    /\ cfPc = "parsed"
    /\ cfConcurrency' = BuildConcurrency(cfOptions, cfEnv)
    /\ cfPc' = IF cfConcurrency' <= 0 \/ cfConcurrency' > ConcurrencyCeiling
               THEN "configError" ELSE "loaded"
    /\ UNCHANGED <<cfCliArg, cfEnv, cfOptions, runVars, nonConfigVars>>

\* VideoSummarizer.processVideosConcurrently reads the limit
ReadConcurrency ==
    /\ cfPc = "loaded"
    /\ cfPc' = "running"
    /\ cfConcurrency' = IF cfConcurrency # 0 THEN cfConcurrency
                        ELSE DefaultConcurrency
    /\ UNCHANGED <<cfCliArg, cfEnv, cfOptions, runVars, nonConfigVars>>

ConfigNext == ParseArguments \/ LoadConfig \/ ReadConcurrency

ConfigSpec == ConfigInit /\ [][ConfigNext]_vars

\* the limit the user configured: the option when given, else the variable
ConfiguredText == IF cfCliArg # "" THEN cfCliArg ELSE cfEnv

OutOfRange(text) ==
    /\ text # ""
    /\ ~ParseInt(text).nan
    /\ (ParseInt(text).n < 1 \/ ParseInt(text).n > ConcurrencyCeiling)

\* C12: a configured concurrency limit that is a number outside 1..10,
\* given by --concurrency or by CONCURRENCY, never gets past startup: the
\* configuration is not loaded and no run starts with another limit.
C12_OutOfRangeRejected ==
    OutOfRange(ConfiguredText) => cfPc \notin {"loaded", "running"}

\* ===================================================================
\* update-tags mode over a store that holds records with tags
\* ===================================================================
SyncRow(id, url, tags) ==
    [video_id |-> id, url |-> url, raindrop_bookmark_id |-> 0, tags |-> tags]

UnknownLink == <<"https://", "example.org", "/", "video">>

\* the rows the store may hold for each video ID: with and without a URL,
\* with tags equal to the bookmark's, a permutation of them, other tags,
\* an empty list, tags that do not parse, and no tags
RowChoices(id) ==
    CASE id = "XYZxyzXYZ01" ->
            {SyncRow(id, LinkPool[1], t) :
                t \in {<<"a", "b">>, <<"b", "a">>, NoTags, UnparsedTags}}
      [] id = "ABCabcABC02" ->
            {SyncRow(id, LinkPool[5], t) : t \in {<<"b", "c">>, <<>>}}
      [] OTHER ->
            {SyncRow(id, u, <<"a">>) : u \in {<<>>, UnknownLink}}

SyncIds == {"XYZxyzXYZ01", "ABCabcABC02", "abcabcabc02"}

\* the stores: up to one row per video ID, in any insertion order
SyncStores ==
    {st \in UNION {[1..n -> UNION {RowChoices(id) : id \in SyncIds}] : n \in 1..3} :
        \A j, k \in 1..Len(st) : j # k => st[j].video_id # st[k].video_id}

SyncInit ==
    /\ JobIdle /\ LookupIdle /\ EnvIdle /\ ItemIdle /\ FilenameIdle /\ ParseErrorIdle /\ DedupIdle /\ SyncLogIdle /\ ConfigIdle /\ TagIdle /\ MatchIdle /\ FetchIdle
    /\ runNo = 1
    /\ colLen \in 0..NumBookmarks
    /\ pc = "special"
    /\ opts = [NoOpts EXCEPT !.mode = "updateTags", !.maxVideos = 1,
                             !.concurrency = 1]
    /\ db = "open"
    /\ store \in SyncStores
    /\ lastWrite = [v \in IdTokens |-> 0]
    /\ stats = ZeroStats
    /\ videos = <<>>
    /\ batchNo = 0
    /\ processed = 0
    /\ item = <<>>
    /\ outcome = <<>>
    /\ sentTags = <<>>
    /\ exitCode = "running"
    /\ abortCause = "none"
    /\ prev = NoPrev
    /\ syncQueue = <<>>
    /\ syncBookmarks = <<>>
    /\ syncStats = ZeroSyncStats
    /\ reported = "none"

SyncNext == UpdateTagsBegin \/ SyncRecord \/ UpdateTagsEnd

SyncSpec == SyncInit /\ [][SyncNext]_vars

\* the records of the store as updateTagsFromDatabase reads them
SyncRecords == GetProcessedVideos(store)

\* a record that has a URL and tags and matches a fetched bookmark
Syncable(video) ==
    /\ video.url # <<>>
    /\ video.tags # NoTags
    /\ FindMatchingBookmark(video.url, syncBookmarks) # 0

CallsFor(video) == {k \in 1..Len(syncCalls) : syncCalls[k].videoId = video.video_id}

C14_SyncIsolation ==
    (reported = "sync" /\ syncFetched) =>
        /\ Len(syncResults) = Len(SyncRecords)
        /\ \A k \in 1..Len(syncResults) :
              syncResults[k].videoId = SyncRecords[k].video_id
        /\ syncStats.results = Len(syncResults)
        /\ syncStats.failedUpdates =
              Cardinality({k \in 1..Len(syncResults) : syncResults[k].error})
        /\ syncStats.successfulUpdates =
              Cardinality({k \in 1..Len(syncResults) : ~syncResults[k].error})
        /\ syncStats.successfulUpdates + syncStats.failedUpdates
              = Len(syncResults)
        /\ syncStats.matched =
              Cardinality({k \in 1..Len(syncResults) :
                              syncResults[k].bookmarkId # 0})

\* C14 witness: three records; the first one read fails for missing data,
\* a later one has a failed update call, and one is updated
C14_FailuresThenSuccess ==
    /\ reported = "sync"
    /\ Len(syncResults) = 3
    /\ syncResults[1].error /\ syncResults[1].bookmarkId = 0
    /\ \E k \in 2..3 : syncResults[k].error /\ syncResults[k].bookmarkId # 0
    /\ \E k \in 2..3 : syncResults[k].tagsUpdated
    /\ syncStats.failedUpdates = 2
    /\ syncStats.successfulUpdates = 1

\* ===================================================================
\* PythonIntegration.parseErrorMessage on arbitrary error texts
\* ===================================================================
\* An error text is the set of the fragments it contains, of those the
\* rules look for (and "Quota", which none of them looks for), and its
\* first line.
Fragments == {"GOOGLE_CLOUD_PROJECT_ID", "authentication", "quota",
              "rate limit", "video", "not found", "Quota"}

FirstLines == {"", "Traceback (most recent call last):"}

ErrorTexts == [has : SUBSET Fragments, firstLine : FirstLines]

\* String.prototype.includes
Includes(errorOutput, fragment) == fragment \in errorOutput.has

ProjectMessage == "Google Cloud Project ID not set or invalid"

AuthMessage ==
    "Google Cloud authentication failed. Run: gcloud auth application-default login"

QuotaMessage == "API quota exceeded or rate limit reached. Please try again later"

VideoMessage == "Video not found or not accessible"

UnknownMessage == "Unknown error occurred"

\* the rules with the quota rule tried before the authentication rule
ParseErrorMessageQuotaFirst(errorOutput) ==
    IF Includes(errorOutput, "GOOGLE_CLOUD_PROJECT_ID") THEN ProjectMessage
    ELSE IF Includes(errorOutput, "quota") \/ Includes(errorOutput, "rate limit")
    THEN QuotaMessage
    ELSE IF Includes(errorOutput, "authentication") THEN AuthMessage
    ELSE IF Includes(errorOutput, "video") /\ Includes(errorOutput, "not found")
    THEN VideoMessage
    ELSE IF errorOutput.firstLine # "" THEN errorOutput.firstLine
    ELSE UnknownMessage

\* PythonIntegration.parseErrorMessage
ParseErrorMessage(errorOutput) ==
    IF Includes(errorOutput, "GOOGLE_CLOUD_PROJECT_ID") THEN ProjectMessage
    ELSE IF Includes(errorOutput, "authentication") THEN AuthMessage
    ELSE IF Includes(errorOutput, "quota") \/ Includes(errorOutput, "rate limit")
    THEN QuotaMessage
    ELSE IF Includes(errorOutput, "video") /\ Includes(errorOutput, "not found")
    THEN VideoMessage
    ELSE IF errorOutput.firstLine # "" THEN errorOutput.firstLine
    ELSE UnknownMessage

ParseErrorInit ==
    /\ JobIdle /\ LookupIdle /\ EnvIdle /\ ItemIdle /\ FilenameIdle /\ RunIdle /\ DedupIdle /\ SyncLogIdle /\ ConfigIdle /\ TagIdle
    /\ MatchIdle /\ FetchIdle
    /\ peText \in ErrorTexts
    /\ peResult = ""

\* summarizeVideo classifies the output of a summarizer that exited
\* non-zero
ClassifyError ==
    /\ peResult = ""
    /\ peResult' = ParseErrorMessage(peText)
    /\ UNCHANGED <<peText, runVars, nonParseErrorVars>>

ParseErrorNext == ClassifyError

ParseErrorSpec == ParseErrorInit /\ [][ParseErrorNext]_vars

\* the categories in the order of the claim, each with what makes a text
\* match it
Categories == <<"project", "authentication", "quota", "video", "unknown">>

MatchesCategory(text, cat) ==
    CASE cat = "project" -> "GOOGLE_CLOUD_PROJECT_ID" \in text.has
      [] cat = "authentication" -> "authentication" \in text.has
      [] cat = "quota" -> "quota" \in text.has \/ "rate limit" \in text.has
      [] cat = "video" -> "video" \in text.has /\ "not found" \in text.has
      [] OTHER -> TRUE

CategoryMessage(text, cat) ==
    CASE cat = "project" -> ProjectMessage
      [] cat = "authentication" -> AuthMessage
      [] cat = "quota" -> QuotaMessage
      [] cat = "video" -> VideoMessage
      [] OTHER -> IF text.firstLine # "" THEN text.firstLine ELSE UnknownMessage

FirstCategory(text) ==
    Categories[CHOOSE k \in 1..Len(Categories) :
                  /\ MatchesCategory(text, Categories[k])
                  /\ \A j \in 1..(k - 1) : ~MatchesCategory(text, Categories[j])]

NoName == [tier |-> "none", parts |-> <<>>]

TitleCap == 50

LongTitleLen == 60

TitleChoices ==
    {<<>>,
     <<"M", "y", " ", " ", "T", "a", "l", "k", "!">>,
     <<"?", "?">>,
     <<"_", "a", "_">>,
     <<"a", "-", "b">>,
     [k \in 1..LongTitleLen |-> "a"]}

UrlChoices ==
    {LinkPool[1], LinkPool[2], LinkPool[4], LinkPool[5],
     <<"youtube.com", "/", "watch", "?", "v=", "XYZxyzXYZ01">>,
     <<"https://", "www.", "example.com", "/">>,
     <<"not a url">>}

\* \w, \s
IsWordChar(c) == c \in {"M", "y", "T", "a", "b", "l", "k", "m", "t", "_"}

IsSpaceChar(c) == c = " "

LowerChar(c) == CASE c = "M" -> "m" [] c = "T" -> "t" [] OTHER -> c

\* .replace(/[^\w\s-]/g, "")
RECURSIVE RemoveSpecial(_)
RemoveSpecial(s) ==
    IF s = <<>> THEN <<>>
    ELSE IF IsWordChar(Head(s)) \/ IsSpaceChar(Head(s)) \/ Head(s) = "-"
    THEN <<Head(s)>> \o RemoveSpecial(Tail(s))
    ELSE RemoveSpecial(Tail(s))

\* .replace(/\s+/g, "_") when isRun is IsSpaceChar; .replace(/_+/g, "_")
\* when the runs are runs of "_": every maximal run of run characters
\* becomes one "_"
RECURSIVE CollapseRuns(_, _)
CollapseRuns(s, runChars) ==
    IF s = <<>> THEN <<>>
    ELSE IF Head(s) \in runChars
    THEN IF Len(s) > 1 /\ s[2] \in runChars
         THEN CollapseRuns(Tail(s), runChars)
         ELSE <<"_">> \o CollapseRuns(Tail(s), runChars)
    ELSE <<Head(s)>> \o CollapseRuns(Tail(s), runChars)

\* .toLowerCase()
LowerCase(s) == [k \in 1..Len(s) |-> LowerChar(s[k])]

\* .replace(/^_+|_+$/g, "")
RECURSIVE TrimUnderscores(_)
TrimUnderscores(s) ==
    IF s = <<>> THEN <<>>
    ELSE IF Head(s) = "_" THEN TrimUnderscores(Tail(s))
    ELSE IF s[Len(s)] = "_" THEN TrimUnderscores(SubSeq(s, 1, Len(s) - 1))
    ELSE s

\* the title sanitizer of the YouTube branch of generateOutputFilename
SanitizedTitle(title) ==
    TrimUnderscores(
        Prefix(LowerCase(CollapseRuns(CollapseRuns(RemoveSpecial(title), {" "}),
                                      {"_"})),
               TitleCap))

\* the title sanitizer of its other branch: no /_+/ step
SafeName(title) ==
    TrimUnderscores(
        Prefix(LowerCase(CollapseRuns(RemoveSpecial(title), {" "})), TitleCap))

\* title.replace(/[^a-zA-Z0-9_-]/g, '_').substring(0, 50) of generateFilename
DetectorSafeName(title) ==
    Prefix([k \in 1..Len(title) |->
               IF IsWordChar(title[k]) \/ title[k] = "-" THEN title[k] ELSE "_"],
           TitleCap)

\* new URL(url) succeeds: the URL has a protocol and a host
UrlParses(url) == At(url, 1) \in Protocols /\ Len(HostTokens(url)) > 0

\* normalizeHostname(urlObj.hostname).replace(/\./g, '_')
HostKey(url) ==
    LET host == HostTokens(url)
        bare == IF At(host, 1) = "www." THEN Tail(host) ELSE host
    IN [k \in 1..Len(bare) |->
           CASE bare[k] = "youtube.com" -> "youtube_com"
             [] bare[k] = "youtu.be" -> "youtu_be"
             [] bare[k] = "example.com" -> "example_com"
             [] bare[k] = "m." -> "m_"
             [] OTHER -> bare[k]]

\* urlObj.pathname.split('/').filter(Boolean).pop() || 'video'
PathPart(url) ==
    LET rest == SubSeq(url, Len(HostTokens(url)) + 2, Len(url))
        path == TakeUntil(rest, 1, {"?", "#"})
        segs == {k \in 1..Len(path) : path[k] # "/"}
    IN IF segs = {} THEN "video"
       ELSE path[CHOOSE k \in segs : \A j \in segs : j <= k]

\* VideoDetector.detectVideo(url).id: null unless the URL parses and its
\* hostname is a supported one
DetectedId(url) == IF IsVideoUrl(url) THEN DbExtractVideoId(url) ELSE NoId

\* VideoDetector.generateFilename
GenerateFilename(url, title) ==
    IF DetectedId(url) # NoId
    THEN [tier |-> "id", parts |-> <<DetectedId(url), "-summary.md">>]
    ELSE IF UrlParses(url)
    THEN [tier |-> "hostpath",
          parts |-> HostKey(url) \o <<"_", PathPart(url), "-summary.md">>]
    ELSE IF title # <<>>
    THEN [tier |-> "title", parts |-> DetectorSafeName(title) \o <<"-summary.md">>]
    ELSE [tier |-> "constant", parts |-> <<"video", "-summary.md">>]

\* PythonIntegration.generateOutputFilename
GenerateOutputFilename(videoUrl, title) ==
    IF DbExtractVideoId(videoUrl) # NoId
    THEN IF title # <<>> /\ SanitizedTitle(title) # <<>>
         THEN [tier |-> "id",
               parts |-> <<DbExtractVideoId(videoUrl), "_">>
                            \o SanitizedTitle(title) \o <<".md">>]
         ELSE [tier |-> "id",
               parts |-> <<DbExtractVideoId(videoUrl), "_summary.md">>]
    ELSE IF title # <<>>
    THEN [tier |-> "title", parts |-> SafeName(title) \o <<"_summary.md">>]
    ELSE [tier |-> "timestamp", parts |-> <<"video_", "Date.now()", "_summary.md">>]

FilenameInit ==
    /\ JobIdle /\ LookupIdle /\ EnvIdle /\ ItemIdle /\ RunIdle /\ ParseErrorIdle /\ DedupIdle /\ SyncLogIdle /\ ConfigIdle
    /\ TagIdle /\ MatchIdle /\ FetchIdle
    /\ fnUrl \in UrlChoices
    /\ fnTitle \in TitleChoices
    /\ fnDetector = NoName
    /\ fnGateway = NoName

DetectorNames ==
    /\ fnDetector = NoName
    /\ fnDetector' = GenerateFilename(fnUrl, fnTitle)
    /\ UNCHANGED <<fnUrl, fnTitle, fnGateway, runVars, nonFilenameVars>>

GatewayNames ==
    /\ fnGateway = NoName
    /\ fnGateway' = GenerateOutputFilename(fnUrl, fnTitle)
    /\ UNCHANGED <<fnUrl, fnTitle, fnDetector, runVars, nonFilenameVars>>

FilenameNext == DetectorNames \/ GatewayNames

FilenameSpec == FilenameInit /\ [][FilenameNext]_vars

\* the tier the fallback chain of the claim selects
ChainTier(url, title) ==
    IF DbExtractVideoId(url) # NoId THEN "id"
    ELSE IF UrlParses(url) THEN "hostpath"
    ELSE IF title # <<>> THEN "title"
    ELSE "timestamp"

\* C18: both generators name the file by the same tier of the chain: the
\* video ID when one can be extracted, else the hostname+path key, else
\* the title slug, else a timestamp.
C18_SameFallbackChain ==
    /\ fnDetector # NoName => fnDetector.tier = ChainTier(fnUrl, fnTitle)
    /\ fnGateway # NoName => fnGateway.tier = ChainTier(fnUrl, fnTitle)

\* ===================================================================
\* One call of processSingleVideo, one await at a time
\* ===================================================================
\* the inner catch around markVideoProcessed counts the item as failed
WriteFailureCountsFailed(failed) == failed + 1

\* catch (error) { this.logger.warn(...) } around markVideoProcessed: the
\* failed counter after a failed store write
AfterWriteFailure(failed) == failed

\* the bookmark handed to processSingleVideo: one of the collection
\* (b > 0) or one built from a playlist video (b < 0)
ItemBookmark(b) == IF b > 0 THEN Bookmark(b) ELSE PlaylistBookmark(0 - b)

ItemInit ==
    /\ JobIdle /\ LookupIdle /\ EnvIdle /\ FilenameIdle /\ ParseErrorIdle /\ DedupIdle /\ SyncLogIdle /\ ConfigIdle /\ TagIdle /\ MatchIdle /\ FetchIdle
    /\ RunIdle
    /\ itPc = "summarizing"
    /\ itBookmark \in (1..NumBookmarks) \cup {0 - k : k \in 1..MaxPlaylist}
    /\ itLog = <<>>
    /\ itSuccessful = 0
    /\ itFailed = 0
    /\ itGen = <<>>
    /\ itOutputFile = FALSE

\* await summarizeVideo(...) settles: a success result (with or without
\* generated tags and output file), a failure result, or a thrown error
ItemSummarized ==
    /\ itPc = "summarizing"
    /\ \/ \E generatedTags \in GenTagChoices, outputFile \in BOOLEAN :
             /\ itSuccessful' = itSuccessful + 1
             /\ itLog' = Append(itLog, "summarized")
             /\ itGen' = generatedTags
             /\ itOutputFile' = outputFile
             /\ itPc' = "persist"
             /\ UNCHANGED itFailed
       \/ \E how \in {"fail", "throw"} :
             /\ itFailed' = itFailed + 1
             /\ itLog' = Append(itLog, how)
             /\ itPc' = "done"
             /\ UNCHANGED <<itSuccessful, itGen, itOutputFile>>
    /\ UNCHANGED itBookmark
    /\ UNCHANGED <<runVars, nonItemVars>>

\* if (videoId && result.outputFile) { try { markVideoProcessed } catch {} }
ItemPersist ==
    /\ itPc = "persist"
    /\ IF DbExtractVideoId(ItemBookmark(itBookmark).link) # NoId /\ itOutputFile
       THEN \E writeOk \in BOOLEAN :
               /\ itLog' = Append(itLog, IF writeOk THEN "written" ELSE "writeFailed")
               /\ itFailed' = IF writeOk THEN itFailed ELSE AfterWriteFailure(itFailed)
       ELSE UNCHANGED <<itLog, itFailed>>
    /\ itPc' = IF Len(itGen) > 0 THEN "tagging" ELSE "done"
    /\ UNCHANGED <<itBookmark, itSuccessful, itGen, itOutputFile>>
    /\ UNCHANGED <<runVars, nonItemVars>>

\* await updateBookmarkTags(bookmark._id, allTags): true or false, never an
\* exception; the result is only logged
ItemUpdateTags ==
    /\ itPc = "tagging"
    /\ \E updateSuccess \in BOOLEAN :
          itLog' = Append(itLog, IF updateSuccess THEN "tagsSent" ELSE "tagsFailed")
    /\ itPc' = "done"
    /\ UNCHANGED <<itBookmark, itSuccessful, itFailed, itGen, itOutputFile>>
    /\ UNCHANGED <<runVars, nonItemVars>>

ItemNext == ItemSummarized \/ ItemPersist \/ ItemUpdateTags

ItemSpec == ItemInit /\ [][ItemNext]_vars

TagEvents == {"tagsSent", "tagsFailed"}

WriteEvents == {"written", "writeFailed"}

\* C24: the tag-update call is made only after a successful summarize and
\* after the store write attempt (when one is made); after a failed
\* summarize nothing is written and no tag update is sent; and an item whose
\* summarize succeeded counts as successful and never as failed, whatever
\* the store write and the tag update do.
C24_TagUpdateAfterPersist ==
    /\ \A k \in 1..Len(itLog) :
           itLog[k] \in TagEvents =>
              /\ itLog[1] = "summarized"
              /\ \A j \in 1..Len(itLog) : itLog[j] \in WriteEvents => j < k
              /\ (DbExtractVideoId(ItemBookmark(itBookmark).link) # NoId /\ itOutputFile) =>
                     \E j \in 1..(k - 1) : itLog[j] \in WriteEvents
    /\ (Len(itLog) > 0 /\ itLog[1] \in {"fail", "throw"}) =>
           Len(itLog) = 1 /\ itPc = "done" /\ itFailed = 1 /\ itSuccessful = 0
    /\ (Len(itLog) > 0 /\ itLog[1] = "summarized") =>
           itSuccessful = 1 /\ itFailed = 0

\* C24 witness: the item was summarized, its store write failed and its tag
\* update failed
C24_WriteAndTagsFailed ==
    /\ itPc = "done"
    /\ itLog = <<"summarized", "writeFailed", "tagsFailed">>

\* ===================================================================
\* PythonIntegration: discovery of the summarizer runtime and its cache
\* ===================================================================
MaxCallers == 3

\* run() up to the first batch: the plain path calls testConnections first,
\* the playlist path goes straight to processVideosConcurrently.  envValid
\* says whether the machine holds a Python installation that validates.
EnvInit ==
    /\ JobIdle /\ LookupIdle /\ ItemIdle /\ FilenameIdle /\ ParseErrorIdle /\ DedupIdle /\ SyncLogIdle /\ ConfigIdle /\ TagIdle /\ MatchIdle /\ FetchIdle
    /\ RunIdle
    /\ envPath \in {"process", "playlist"}
    /\ envPc = IF envPath = "process" THEN "test" ELSE "batch"
    /\ envValid \in BOOLEAN
    /\ envCache = "null"
    /\ envDetections = 0
    /\ envCall = [c \in 1..MaxCallers |-> "idle"]

\* testPythonEnvironment, called by testConnections before anything is
\* dispatched: detection when nothing is cached; false aborts the run
TestPythonEnvironment ==
    /\ envPc = "test"
    /\ envDetections' = IF envCache = "null" THEN envDetections + 1 ELSE envDetections
    /\ envCache' = IF envValid THEN "env" ELSE envCache
    /\ envPc' = IF envValid THEN "batch" ELSE "aborted"
    /\ UNCHANGED <<envPath, envValid, envCall>>
    /\ UNCHANGED <<runVars, nonEnvVars>>

\* summarizeVideo up to its first await: if (!this.pythonEnv) await
\* this.detectPythonEnvironment()
EnterSummarizeVideo(c) ==
    /\ envPc = "batch"
    /\ envCall[c] = "idle"
    /\ IF envCache = "null"
       THEN /\ envDetections' = envDetections + 1
            /\ envCall' = [envCall EXCEPT ![c] = "detecting"]
       ELSE /\ envDetections' = envDetections
            /\ envCall' = [envCall EXCEPT ![c] = "running"]
    /\ UNCHANGED <<envPc, envPath, envValid, envCache>>
    /\ UNCHANGED <<runVars, nonEnvVars>>

\* detectPythonEnvironment settles: this.pythonEnv = candidate, or
\* PythonIntegrationError when no candidate validates
DetectionSettles(c) ==
    /\ envCall[c] = "detecting"
    /\ envCache' = IF envValid THEN "env" ELSE envCache
    /\ envCall' = [envCall EXCEPT ![c] = IF envValid THEN "running" ELSE "thrown"]
    /\ UNCHANGED <<envPc, envPath, envValid, envDetections>>
    /\ UNCHANGED <<runVars, nonEnvVars>>

\* the Python script of the call ends
ScriptEnds(c) ==
    /\ envCall[c] = "running"
    /\ envCall' = [envCall EXCEPT ![c] = "done"]
    /\ UNCHANGED <<envPc, envPath, envValid, envCache, envDetections>>
    /\ UNCHANGED <<runVars, nonEnvVars>>

EnvNext ==
    \/ TestPythonEnvironment
    \/ \E c \in 1..MaxCallers : EnterSummarizeVideo(c)
    \/ \E c \in 1..MaxCallers : DetectionSettles(c)
    \/ \E c \in 1..MaxCallers : ScriptEnds(c)

EnvSpec == EnvInit /\ [][EnvNext]_vars

\* C26: detectPythonEnvironment is invoked at most once per process, and a
\* summarizeVideo call that runs the script uses the cached environment.
C26_DetectOnce ==
    /\ envDetections <= 1
    /\ \A c \in 1..Len(envCall) : envCall[c] = "running" => envCache = "env"

\* ===================================================================
\* TagUpdater.findMatchingBookmark over a list of bookmarks
\* ===================================================================
MaxBookmarks == 2

\* record URLs and bookmark links: two videos, each as a watch URL and as a
\* short URL, further spellings of the first, and a page that is no video
LookupLinks ==
    {<<"https://", "www.", "youtube.com", "/", "watch", "?", "v=", "XYZxyzXYZ01">>,
     <<"https://", "m.", "youtube.com", "/", "watch", "?", "v=", "XYZxyzXYZ01",
       "&", "feature=share">>,
     <<"http://", "youtube.com", "/", "watch", "/", "?", "v=", "XYZxyzXYZ01">>,
     <<"https://", "youtu.be", "/", "XYZxyzXYZ01">>,
     <<"https://", "www.", "youtube.com", "/", "watch", "?", "v=", "ABCabcABC02">>,
     <<"https://", "youtu.be", "/", "ABCabcABC02">>,
     <<"https://", "example.com", "/", "article">>}

LookupInit ==
    /\ JobIdle /\ EnvIdle /\ ItemIdle /\ FilenameIdle /\ ParseErrorIdle /\ DedupIdle /\ SyncLogIdle /\ ConfigIdle /\ TagIdle /\ MatchIdle /\ FetchIdle
    /\ RunIdle
    /\ lkPhase = "record"
    /\ lkStored \in LookupLinks
    /\ lkLinks \in UNION {[1..n -> LookupLinks] : n \in 1..MaxBookmarks}
    /\ lkResult = 0

\* the bookmarks fetched for matching
LookupBookmarks == [k \in 1..Len(lkLinks) |-> [_id |-> k, link |-> lkLinks[k], tags |-> <<>>]]

\* processVideoFromDatabase calls findMatchingBookmark(video.url, bookmarks)
LookupRecord ==
    /\ lkPhase = "record"
    /\ lkResult' = FindMatchingBookmark(lkStored, LookupBookmarks)
    /\ lkPhase' = "matched"
    /\ UNCHANGED <<lkStored, lkLinks, runVars, nonLookupVars>>

LookupNext == LookupRecord

LookupSpec == LookupInit /\ [][LookupNext]_vars

UrlMatch(k) == NormalizeUrl(lkLinks[k]) = NormalizeUrl(lkStored)

\* C27: when the returned bookmark does not match the record by normalized
\* URL (it was matched by video ID), no bookmark of the list matches the
\* record by normalized URL.
C27_UrlMatchFirst ==
    (lkPhase = "matched" /\ lkResult # 0 /\ ~UrlMatch(lkResult)) =>
        \A k \in 1..Len(lkLinks) : ~UrlMatch(k)

\* C28: when the record URL and the returned bookmark both have a video
\* ID, the two IDs are equal.
C28_SameVideoOnly ==
    (/\ lkPhase = "matched" /\ lkResult # 0
     /\ TuExtractVideoId(lkStored) # <<>>
     /\ TuExtractVideoId(lkLinks[lkResult]) # <<>>) =>
        TuExtractVideoId(lkLinks[lkResult]) = TuExtractVideoId(lkStored)

\* ===================================================================
\* The web dashboard: the in-memory job store and POST /api/jobs/create
\* ===================================================================
MaxJobs == 2

Unset == "undefined"

\* the videoUrl of a request body: missing, no YouTube URL, a watch URL, a
\* short URL
JobUrls ==
    {<<>>,
     <<"https://", "example.com", "/", "article">>,
     <<"https://", "www.", "youtube.com", "/", "watch", "?", "v=", "XYZxyzXYZ01">>,
     <<"https://", "youtu.be", "/", "ABCabcABC02">>}

\* validateVideoUrl: three patterns anchored at the start of the URL
ValidateVideoUrl(url) ==
    LET rest == IF At(url, 1) \in Protocols THEN Tail(url) ELSE <<>>
        host == IF At(rest, 1) = "www." THEN Tail(rest) ELSE rest
    IN /\ At(url, 1) \in Protocols
       /\ \/ Prefix(host, 5) = <<"youtube.com", "/", "watch", "?", "v=">>
          \/ Prefix(host, 2) = <<"youtu.be", "/">>
          \/ Prefix(host, 4) = <<"youtube.com", "/", "embed", "/">>
          \/ Prefix(host, 6) = <<"m.", "youtube.com", "/", "watch", "?", "v=">>

\* one pattern of the route's extractVideoId tried at token position p; the
\* group [^&\n?#]+ is the token that follows, when there is one
JobIdAt(url, p, pattern) ==
    LET id == IF pattern = 1 /\ SubSeq(url, p, Min(p + 4, Len(url)))
                                   = <<"youtube.com", "/", "watch", "?", "v=">>
              THEN At(url, p + 5)
              ELSE IF pattern = 1 /\ SubSeq(url, p, Min(p + 1, Len(url)))
                                        = <<"youtu.be", "/">>
              THEN At(url, p + 2)
              ELSE IF pattern = 2 /\ SubSeq(url, p, Min(p + 3, Len(url)))
                                        = <<"youtube.com", "/", "embed", "/">>
              THEN At(url, p + 4)
              ELSE ""
    IN IF id \in {"", "&", "?", "#"} THEN NoId ELSE id

\* extractVideoId of the route: the patterns in order, each unanchored (the
\* third, m.youtube.com/watch?v=, only matches where the first already did)
JobExtractVideoId(url) ==
    LET hits(pattern) == {p \in 1..Len(url) : JobIdAt(url, p, pattern) # NoId}
        first(pattern) == CHOOSE p \in hits(pattern) : \A q \in hits(pattern) : p <= q
    IN IF hits(1) # {} THEN JobIdAt(url, first(1), 1)
       ELSE IF hits(2) # {} THEN JobIdAt(url, first(2), 2)
       ELSE NoId

\* jobs.push(job)
AddJob(all, job) == Append(all, job)

\* jobs.findIndex(j => j.id === jobId), 0 for -1
FindJobIndex(all, jobId) ==
    LET hits == {k \in 1..Len(all) : all[k].id = jobId}
    IN IF hits = {} THEN 0 ELSE CHOOSE k \in hits : \A q \in hits : k <= q

\* { ...job, ...updates }
Spread(job, updates) ==
    [id          |-> job.id,
     videoUrl    |-> job.videoUrl,
     videoId     |-> job.videoId,
     status      |-> IF "status" \in DOMAIN updates THEN updates.status ELSE job.status,
     progress    |-> IF "progress" \in DOMAIN updates THEN updates.progress ELSE job.progress,
     error       |-> IF "error" \in DOMAIN updates THEN updates.error ELSE job.error,
     summaryPath |-> IF "summaryPath" \in DOMAIN updates THEN updates.summaryPath
                     ELSE job.summaryPath,
     summary     |-> IF "summary" \in DOMAIN updates THEN updates.summary ELSE job.summary]

\* updateJob: the first job with the ID is replaced by the merged object; an
\* unknown ID changes nothing.  (The updatedAt stamp is not modelled; every
\* write to the store is kept in jobHistory.)
UpdateJob(all, jobId, updates) ==
    IF FindJobIndex(all, jobId) = 0 THEN all
    ELSE [all EXCEPT ![FindJobIndex(all, jobId)] = Spread(@, updates)]

\* getJob: the first job with the ID, or null (0)
GetJob(all, jobId) ==
    IF FindJobIndex(all, jobId) = 0 THEN 0 ELSE all[FindJobIndex(all, jobId)]

\* the updates of the catch block of processVideoAsync, and a variant that
\* also resets the progress
FailedUpdateResetsProgress(message) ==
    [status |-> "failed", error |-> message, progress |-> 0]

FailedUpdate(message) == [status |-> "failed", error |-> message]

\* the final update of the try block
CompletedUpdate(summaryPath, summaryResult) ==
    [status |-> "completed", progress |-> 100,
     summaryPath |-> summaryPath, summary |-> summaryResult]

\* what a write leaves in the store, with its writer: "POST" for addJob, the
\* number of the processVideoAsync call otherwise
Written(by, job) == [by |-> by, status |-> job.status, progress |-> job.progress]

\* the ID of the p-th created job, job_<Date.now()>_<9 random characters>:
\* the IDs of two jobs are taken to differ
JobId(p) == p

JobInit ==
    /\ LookupIdle /\ EnvIdle /\ ItemIdle /\ FilenameIdle /\ ParseErrorIdle /\ DedupIdle /\ SyncLogIdle /\ ConfigIdle /\ TagIdle /\ MatchIdle /\ FetchIdle
    /\ RunIdle
    /\ jobs = <<>>
    /\ jobPc = <<>>
    /\ jobResult = <<>>
    /\ jobHistory = <<>>
    /\ jobReply = [status |-> 0, error |-> "", job |-> 0]
    /\ jobToken \in BOOLEAN

\* updateJob called by the processVideoAsync call number p
JobWrite(p, updates, nextPc) ==
    LET k == FindJobIndex(jobs, JobId(p))
    IN /\ jobs' = UpdateJob(jobs, JobId(p), updates)
       /\ jobHistory' = IF k = 0 THEN jobHistory
                        ELSE [jobHistory EXCEPT
                                 ![k] = Append(@, Written(p, jobs'[k]))]
       /\ jobPc' = [jobPc EXCEPT ![p] = nextPc]

\* POST /api/jobs/create: the checks, addJob, and processVideoAsync up to
\* its first await (the call is not awaited, its body runs synchronously up
\* to `await findPythonExecutable()`), then the response built from the
\* local job object
POST(videoUrl) ==
    IF ~jobToken
    THEN /\ jobReply' = [status |-> 500, error |-> "Raindrop token not configured",
                         job |-> 0]
         /\ UNCHANGED <<jobs, jobPc, jobResult, jobHistory, jobToken, runVars, nonJobVars>>
    ELSE IF videoUrl = <<>>
    THEN /\ jobReply' = [status |-> 400, error |-> "Video URL is required", job |-> 0]
         /\ UNCHANGED <<jobs, jobPc, jobResult, jobHistory, jobToken, runVars, nonJobVars>>
    ELSE IF ~ValidateVideoUrl(videoUrl)
    THEN /\ jobReply' = [status |-> 400, error |-> "Invalid YouTube video URL",
                         job |-> 0]
         /\ UNCHANGED <<jobs, jobPc, jobResult, jobHistory, jobToken, runVars, nonJobVars>>
    ELSE /\ Len(jobs) < MaxJobs
         /\ LET p == Len(jobs) + 1
                job == [id          |-> JobId(p),
                        videoUrl    |-> videoUrl,
                        videoId     |-> JobExtractVideoId(videoUrl),
                        status      |-> "pending",
                        progress    |-> 0,
                        error       |-> "null",
                        summaryPath |-> Unset,
                        summary     |-> Unset]
            IN /\ jobs' = UpdateJob(AddJob(jobs, job), JobId(p),
                                    [status |-> "processing", progress |-> 10])
               /\ jobHistory' = Append(jobHistory,
                                       <<Written("POST", job), Written(p, jobs'[p])>>)
               /\ jobPc' = Append(jobPc, "findPythonExecutable")
               /\ jobResult' = Append(jobResult, Unset)
               /\ jobReply' = [status |-> 200, error |-> "", job |-> job]
         /\ UNCHANGED <<jobToken, runVars, nonJobVars>>

\* findPythonExecutable settles: null throws 'Python executable not found'
FindPythonSettles(p) ==
    /\ p \in 1..Len(jobPc)
    /\ jobPc[p] = "findPythonExecutable"
    /\ \E pythonPath \in {"null", "python3"} :
          IF pythonPath = "null"
          THEN JobWrite(p, FailedUpdate("Python executable not found"), "done")
          ELSE JobWrite(p, [progress |-> 25], "runPythonSummarizer")
    /\ UNCHANGED <<jobResult, jobReply, jobToken, runVars, nonJobVars>>

\* runPythonSummarizer settles: exit code 0 resolves with the output, which
\* may be empty; another exit code or a spawn error rejects
SummarizerSettles(p) ==
    /\ p \in 1..Len(jobPc)
    /\ jobPc[p] = "runPythonSummarizer"
    /\ \E code \in {0, 1}, output \in {"", "# Summary"} :
          IF code = 0
          THEN /\ JobWrite(p, [progress |-> 80], "mkdir")
               /\ jobResult' = [jobResult EXCEPT ![p] = output]
          ELSE /\ output = ""
               /\ JobWrite(p, FailedUpdate("Python script failed with code 1: "), "done")
               /\ UNCHANGED jobResult
    /\ UNCHANGED <<jobReply, jobToken, runVars, nonJobVars>>

\* fs.mkdir settles
MkdirSettles(p) ==
    /\ p \in 1..Len(jobPc)
    /\ jobPc[p] = "mkdir"
    /\ \E ok \in BOOLEAN :
          IF ok
          THEN /\ jobPc' = [jobPc EXCEPT ![p] = "writeFile"]
               /\ UNCHANGED <<jobs, jobHistory>>
          ELSE JobWrite(p, FailedUpdate("EACCES: permission denied, mkdir"), "done")
    /\ UNCHANGED <<jobResult, jobReply, jobToken, runVars, nonJobVars>>

\* fs.writeFile settles: the job is completed, or the catch block runs
WriteFileSettles(p) ==
    /\ p \in 1..Len(jobPc)
    /\ jobPc[p] = "writeFile"
    /\ \E ok \in BOOLEAN :
          IF ok
          THEN JobWrite(p, CompletedUpdate(<<JobExtractVideoId(GetJob(jobs, JobId(p)).videoUrl),
                                             "-summary.md">>, jobResult[p]), "done")
          ELSE JobWrite(p, FailedUpdate("ENOSPC: no space left on device, write"), "done")
    /\ UNCHANGED <<jobResult, jobReply, jobToken, runVars, nonJobVars>>

\* GET /api/jobs/[id]: session check, getJob, owner check
GET(session, id) ==
    /\ jobReply' =
          IF session = "none"
          THEN [status |-> 401, error |-> "Authentication required", job |-> 0]
          ELSE IF FindJobIndex(jobs, id) = 0
          THEN [status |-> 404, error |-> "Job not found", job |-> 0]
          ELSE IF session # "default"
          THEN [status |-> 403, error |-> "Access denied", job |-> 0]
          ELSE [status |-> 200, error |-> "", job |-> GetJob(jobs, id)]
    /\ UNCHANGED <<jobs, jobPc, jobResult, jobHistory, jobToken, runVars, nonJobVars>>

JobNext ==
    \/ \E videoUrl \in JobUrls : POST(videoUrl)
    \/ \E p \in 1..MaxJobs : FindPythonSettles(p)
    \/ \E p \in 1..MaxJobs : SummarizerSettles(p)
    \/ \E p \in 1..MaxJobs : MkdirSettles(p)
    \/ \E p \in 1..MaxJobs : WriteFileSettles(p)
    \/ \E session \in {"none", "default", "other"}, id \in 1..MaxJobs : GET(session, id)

JobSpec == JobInit /\ [][JobNext]_vars

\* the status changes a write may make
JobMoves ==
    {<<"pending", "processing">>, <<"processing", "processing">>,
     <<"processing", "completed">>, <<"processing", "failed">>}

\* C30: every job was added pending with progress 0; every later write is
\* made by its own processVideoAsync call, follows pending -> processing ->
\* completed or failed (so none follows completed or failed) and never
\* lowers the progress; the store holds what the last write left; a
\* completed job has progress 100, a summary and a summaryPath; a failed
\* job has an error message.
C30_JobLifecycle ==
    \A j \in 1..Len(jobs) :
        LET h == jobHistory[j]
        IN /\ h[1] = Written("POST", [status |-> "pending", progress |-> 0])
           /\ \A k \in 2..Len(h) :
                 /\ h[k].by = j
                 /\ <<h[k - 1].status, h[k].status>> \in JobMoves
                 /\ h[k].progress >= h[k - 1].progress
           /\ jobs[j].status = h[Len(h)].status
           /\ jobs[j].progress = h[Len(h)].progress
           /\ jobs[j].status = "completed" =>
                 /\ jobs[j].progress = 100
                 /\ jobs[j].summary # Unset
                 /\ jobs[j].summaryPath # Unset
           /\ jobs[j].status = "failed" => jobs[j].error \notin {"null", ""}

\* two jobs created one after the other, the first failed after its
\* progress reached 80 while the second completed, and the first read back
C30_FailedAndCompleted ==
    /\ Len(jobs) = 2
    /\ jobs[1].status = "failed" /\ jobs[1].progress = 80
    /\ jobs[2].status = "completed"
    /\ jobReply.status = 200
    /\ jobReply.job.status = "failed"

====
